---- MODULE Spec2Model ----
(***************************************************************************)
(* kv_eql: an "Explicit Query Language" over an ordered key-value store.   *)
(* The model follows src/src/lib.rs: records and index entries are byte    *)
(* strings in column families, values are JSON values serialised by        *)
(* serde_json, the catalog (Metadata) is kept in memory and in             *)
(* metadata.json.                                                          *)
(*                                                                         *)
(* Bytes are naturals 0..255, byte strings and text are sequences of       *)
(* bytes (text is ASCII here).                                             *)
(***************************************************************************)
EXTENDS Integers, Sequences, FiniteSets, TLC

\* ------------------------------------------------------------------------
\* Bounds of the model
\* ------------------------------------------------------------------------

\* the calls draw their record keys from the first MaxKeys keys of KeyList
MaxKeys == 2

\* a caller-held batch accumulates at most MaxBatch batch_* calls
MaxBatch == 2

\* a child operation yields at most MaxStream records
MaxStream == 2

\* WriteBatch length above which the back-fill of add_index flushes
FlushLimit == 1000

\* ------------------------------------------------------------------------
\* serde_json::Value
\* ------------------------------------------------------------------------

\* One record shape for every kind of value: tag names the kind, n carries a
\* number or a boolean, s the bytes of a string, o the elements of an array
\* (domain 1..n) or the members of an object (domain: the member names).
Null == [tag |-> "null", n |-> 0, s |-> <<>>, o |-> <<>>]

Bool(b) == [tag |-> "bool", n |-> IF b THEN 1 ELSE 0, s |-> <<>>, o |-> <<>>]

Num(i) == [tag |-> "num", n |-> i, s |-> <<>>, o |-> <<>>]

\* a number held as f64 whose value is the integer x (serde_json keeps it apart
\* from the integer x: N::Float against N::PosInt or N::NegInt)
Float(x) == [tag |-> "float", n |-> x, s |-> <<>>, o |-> <<>>]

Str(cs) == [tag |-> "str", n |-> 0, s |-> cs, o |-> <<>>]

Arr(vs) == [tag |-> "arr", n |-> 0, s |-> <<>>, o |-> vs]

Obj(ms) == [tag |-> "obj", n |-> 0, s |-> <<>>, o |-> ms]

\* what from_slice(..).unwrap() gives on bytes that are not JSON: a panic
Panic == [tag |-> "panic", n |-> 0, s |-> <<>>, o |-> <<>>]

\* ------------------------------------------------------------------------
\* Byte strings
\* ------------------------------------------------------------------------

\* a < b in the byte-lexicographic order RocksDB keeps its keys in
LexLess(a, b) ==
    \E i \in 1..Len(b) :
        /\ i <= Len(a) + 1
        /\ \A j \in 1..(i - 1) : a[j] = b[j]
        /\ (i = Len(a) + 1 \/ a[i] < b[i])

LexLeq(a, b) == a = b \/ LexLess(a, b)

\* the byte strings of S in increasing order
RECURSIVE SortBytes(_)
SortBytes(S) ==
    IF S = {} THEN <<>>
    ELSE LET m == CHOOSE x \in S : \A y \in S : LexLeq(x, y)
         IN  <<m>> \o SortBytes(S \ {m})

Range(f) == {f[x] : x \in DOMAIN f}

\* ------------------------------------------------------------------------
\* serde_json::to_vec
\* ------------------------------------------------------------------------

RECURSIVE Digits(_)
Digits(n) == IF n < 10 THEN <<48 + n>> ELSE Digits(n \div 10) \o <<48 + (n % 10)>>

EncInt(n) == IF n < 0 THEN <<45>> \o Digits(0 - n) ELSE Digits(n)

HexDigit(d) == IF d < 10 THEN 48 + d ELSE 87 + d

\* one character of a string, escaped as serde_json's format_escaped_str does
EscapeChar(c) ==
    CASE c = 34 -> <<92, 34>>
      [] c = 92 -> <<92, 92>>
      [] c = 8  -> <<92, 98>>
      [] c = 12 -> <<92, 102>>
      [] c = 10 -> <<92, 110>>
      [] c = 13 -> <<92, 114>>
      [] c = 9  -> <<92, 116>>
      [] c < 32 /\ c \notin {8, 9, 10, 12, 13} ->
            <<92, 117, 48, 48, HexDigit(c \div 16), HexDigit(c % 16)>>
      [] OTHER -> <<c>>

RECURSIVE EscapeAll(_)
EscapeAll(cs) ==
    IF cs = <<>> THEN <<>> ELSE EscapeChar(Head(cs)) \o EscapeAll(Tail(cs))

EncStr(cs) == <<34>> \o EscapeAll(cs) \o <<34>>

RECURSIVE to_vec(_)
RECURSIVE EncElems(_, _)
RECURSIVE EncMembers(_, _)

\* the elements of an array from position i on, comma separated
EncElems(vs, i) ==
    IF i > Len(vs) THEN <<>>
    ELSE (IF i > 1 THEN <<44>> ELSE <<>>) \o to_vec(vs[i]) \o EncElems(vs, i + 1)

\* the members of an object in the order of their names (serde_json::Map is a
\* BTreeMap), names being the sorted sequence of the names still to write
EncMembers(ms, names) ==
    IF names = <<>> THEN <<>>
    ELSE EncStr(Head(names)) \o <<58>> \o to_vec(ms[Head(names)])
         \o (IF Len(names) > 1 THEN <<44>> ELSE <<>>)
         \o EncMembers(ms, Tail(names))

to_vec(v) ==
    CASE v.tag = "null" -> <<110, 117, 108, 108>>
      [] v.tag = "bool" -> IF v.n = 1 THEN <<116, 114, 117, 101>>
                                      ELSE <<102, 97, 108, 115, 101>>
      [] v.tag = "num"  -> EncInt(v.n)
      [] v.tag = "float" -> EncInt(v.n) \o <<46, 48>>
      [] v.tag = "str"  -> EncStr(v.s)
      [] v.tag = "arr"  -> <<91>> \o EncElems(v.o, 1) \o <<93>>
      [] v.tag = "obj"  -> <<123>> \o EncMembers(v.o, SortBytes(DOMAIN v.o)) \o <<125>>

\* ------------------------------------------------------------------------
\* serde_json::from_slice (the stored bytes are always written by to_vec, so
\* the parser reads compact JSON with integer numbers)
\* ------------------------------------------------------------------------

ParseFail == [ok |-> FALSE, v |-> Null, pos |-> 0]

ParseOk(v, pos) == [ok |-> TRUE, v |-> v, pos |-> pos]

\* b has the bytes lit at position i
HasLit(b, i, lit) ==
    /\ i + Len(lit) - 1 <= Len(b)
    /\ \A j \in 1..Len(lit) : b[i + j - 1] = lit[j]

IsDigit(c) == c >= 48 /\ c <= 57

HexVal(c) ==
    CASE c >= 48 /\ c <= 57  -> c - 48
      [] c >= 97 /\ c <= 102 -> c - 87
      [] c >= 65 /\ c <= 70  -> c - 55
      [] OTHER -> 0 - 1

\* the digits of a number from position i on, acc being the value read so far
RECURSIVE ParseDigits(_, _, _)
ParseDigits(b, i, acc) ==
    IF i <= Len(b) /\ IsDigit(b[i])
    THEN ParseDigits(b, i + 1, acc * 10 + (b[i] - 48))
    ELSE [n |-> acc, pos |-> i]

\* an integer at position i: an optional minus, then 0 or a digit string that
\* does not start with 0
ParseNumber(b, i) ==
    LET neg == b[i] = 45
        j   == IF neg THEN i + 1 ELSE i
    IN  IF j > Len(b) \/ ~IsDigit(b[j]) THEN ParseFail
        ELSE IF b[j] = 48
             THEN IF j + 1 <= Len(b) /\ IsDigit(b[j + 1]) THEN ParseFail
                  ELSE ParseOk(Num(0), j + 1)
             ELSE LET d == ParseDigits(b, j, 0)
                  IN  ParseOk(Num(IF neg THEN 0 - d.n ELSE d.n), d.pos)

\* the characters of a string from position i on (after the opening quote),
\* acc being the characters read so far
RECURSIVE ParseChars(_, _, _)
ParseChars(b, i, acc) ==
    IF i > Len(b) THEN ParseFail
    ELSE LET c == b[i] IN
         CASE c = 34 -> ParseOk(Str(acc), i + 1)
           [] c < 32 -> ParseFail
           [] c = 92 ->
                IF i + 1 > Len(b) THEN ParseFail
                ELSE LET e == b[i + 1] IN
                     CASE e = 34  -> ParseChars(b, i + 2, Append(acc, 34))
                       [] e = 92  -> ParseChars(b, i + 2, Append(acc, 92))
                       [] e = 47  -> ParseChars(b, i + 2, Append(acc, 47))
                       [] e = 98  -> ParseChars(b, i + 2, Append(acc, 8))
                       [] e = 102 -> ParseChars(b, i + 2, Append(acc, 12))
                       [] e = 110 -> ParseChars(b, i + 2, Append(acc, 10))
                       [] e = 114 -> ParseChars(b, i + 2, Append(acc, 13))
                       [] e = 116 -> ParseChars(b, i + 2, Append(acc, 9))
                       [] e = 117 ->
                            IF i + 5 > Len(b) THEN ParseFail
                            ELSE LET h == [k \in 1..4 |-> HexVal(b[i + 1 + k])]
                                     code == h[1] * 4096 + h[2] * 256 + h[3] * 16 + h[4]
                                 IN  IF (\E k \in 1..4 : h[k] < 0) \/ code > 127
                                     THEN ParseFail
                                     ELSE ParseChars(b, i + 6, Append(acc, code))
                       [] OTHER -> ParseFail
           [] OTHER -> ParseChars(b, i + 1, Append(acc, c))

RECURSIVE ParseValue(_, _)
RECURSIVE ParseElems(_, _, _)
RECURSIVE ParseMembers(_, _, _)

\* the elements of an array, i being the position of the next element
ParseElems(b, i, acc) ==
    LET r == ParseValue(b, i) IN
    IF ~r.ok \/ r.pos > Len(b) THEN ParseFail
    ELSE CASE b[r.pos] = 93 -> ParseOk(Arr(Append(acc, r.v)), r.pos + 1)
           [] b[r.pos] = 44 -> ParseElems(b, r.pos + 1, Append(acc, r.v))
           [] OTHER -> ParseFail

\* the members of an object, i being the position of the next member name; a
\* name that comes twice keeps its last value
ParseMembers(b, i, acc) ==
    IF i > Len(b) \/ b[i] # 34 THEN ParseFail
    ELSE LET k == ParseChars(b, i + 1, <<>>) IN
         IF ~k.ok \/ k.pos > Len(b) \/ b[k.pos] # 58 THEN ParseFail
         ELSE LET r == ParseValue(b, k.pos + 1) IN
              IF ~r.ok \/ r.pos > Len(b) THEN ParseFail
              ELSE LET ms == [m \in (DOMAIN acc) \cup {k.v.s} |->
                                 IF m = k.v.s THEN r.v ELSE acc[m]]
                   IN  CASE b[r.pos] = 125 -> ParseOk(Obj(ms), r.pos + 1)
                         [] b[r.pos] = 44  -> ParseMembers(b, r.pos + 1, ms)
                         [] OTHER -> ParseFail

ParseValue(b, i) ==
    IF i > Len(b) THEN ParseFail
    ELSE LET c == b[i] IN
         CASE c = 110 -> IF HasLit(b, i, <<110, 117, 108, 108>>)
                         THEN ParseOk(Null, i + 4) ELSE ParseFail
           [] c = 116 -> IF HasLit(b, i, <<116, 114, 117, 101>>)
                         THEN ParseOk(Bool(TRUE), i + 4) ELSE ParseFail
           [] c = 102 -> IF HasLit(b, i, <<102, 97, 108, 115, 101>>)
                         THEN ParseOk(Bool(FALSE), i + 5) ELSE ParseFail
           [] c = 34  -> ParseChars(b, i + 1, <<>>)
           [] c = 45 \/ IsDigit(c) -> ParseNumber(b, i)
           [] c = 91  -> IF i + 1 <= Len(b) /\ b[i + 1] = 93
                         THEN ParseOk(Arr(<<>>), i + 2)
                         ELSE ParseElems(b, i + 1, <<>>)
           [] c = 123 -> IF i + 1 <= Len(b) /\ b[i + 1] = 125
                         THEN ParseOk(Obj(<<>>), i + 2)
                         ELSE ParseMembers(b, i + 1, <<>>)
           [] OTHER -> ParseFail

\* from_slice(b).unwrap(): the value b spells, all of b being read
from_slice(b) ==
    LET r == ParseValue(b, 1)
    IN  IF r.ok /\ r.pos = Len(b) + 1 THEN r.v ELSE Panic

\* ------------------------------------------------------------------------
\* serde_json::Value::pointer
\* ------------------------------------------------------------------------

\* the pieces of text cs between the occurrences of byte sep (slice::split and
\* str::split: n separators give n + 1 pieces, empty pieces included)
RECURSIVE SplitAt(_, _, _, _)
SplitAt(cs, sep, i, cur) ==
    IF i > Len(cs) THEN <<cur>>
    ELSE IF cs[i] = sep THEN <<cur>> \o SplitAt(cs, sep, i + 1, <<>>)
         ELSE SplitAt(cs, sep, i + 1, Append(cur, cs[i]))

Split(cs, sep) == SplitAt(cs, sep, 1, <<>>)

\* replace("~1", "/") over the whole token
RECURSIVE Replace1(_)
Replace1(cs) ==
    IF cs = <<>> THEN <<>>
    ELSE IF Len(cs) >= 2 /\ cs[1] = 126 /\ cs[2] = 49
         THEN <<47>> \o Replace1(SubSeq(cs, 3, Len(cs)))
         ELSE <<Head(cs)>> \o Replace1(Tail(cs))

\* replace("~0", "~") over the whole token
RECURSIVE Replace0(_)
Replace0(cs) ==
    IF cs = <<>> THEN <<>>
    ELSE IF Len(cs) >= 2 /\ cs[1] = 126 /\ cs[2] = 48
         THEN <<126>> \o Replace0(SubSeq(cs, 3, Len(cs)))
         ELSE <<Head(cs)>> \o Replace0(Tail(cs))

\* the array index a token spells, -1 when it spells none
parse_index(tok) ==
    IF tok = <<>> \/ (\E j \in 1..Len(tok) : ~IsDigit(tok[j]))
       \/ (tok[1] = 48 /\ Len(tok) # 1)
    THEN 0 - 1
    ELSE ParseDigits(tok, 1, 0).n

NoValue == [some |-> FALSE, v |-> Null]

Some(v) == [some |-> TRUE, v |-> v]

\* follow the tokens from position i on, starting at target
RECURSIVE Walk(_, _, _)
Walk(target, toks, i) ==
    IF i > Len(toks) THEN Some(target)
    ELSE LET tok == Replace0(Replace1(toks[i])) IN
         CASE target.tag = "obj" ->
                IF tok \in DOMAIN target.o THEN Walk(target.o[tok], toks, i + 1)
                ELSE NoValue
           [] target.tag = "arr" ->
                LET x == parse_index(tok) IN
                IF x >= 0 /\ x < Len(target.o) THEN Walk(target.o[x + 1], toks, i + 1)
                ELSE NoValue
           [] OTHER -> NoValue

\* value.pointer(p): the part of value the JSON pointer p names, if any
pointer(value, p) ==
    IF p = <<>> THEN Some(value)
    ELSE IF p[1] # 47 THEN NoValue
         ELSE Walk(value, Tail(Split(p, 47)), 1)

\* ------------------------------------------------------------------------
\* The universe the calls draw their arguments from
\* ------------------------------------------------------------------------

\* record types: "t"
Types == {<<116>>}

\* index names: "i"
IndexNames == {<<105>>}

\* the JSON pointers "/n" and "/g"
PathN == <<47, 110>>

PathG == <<47, 103>>

\* the path lists an index is created on
IndexDefs == {<<PathN>>, <<PathN, PathG>>}

\* record keys: 2, 10 and 1; as bytes "1" < "10" < "2"
KeyList == <<Num(2), Num(10), Num(1)>>

Keys == {KeyList[j] : j \in 1..MaxKeys}

\* record values: {"g":2,"n":1} and {"n":10}; to_vec(1) is a proper prefix of
\* to_vec(10), and the path "/g" is missing from the second value
RecValues ==
    { Obj((<<110>> :> Num(1)) @@ (<<103>> :> Num(2))),
      Obj((<<110>> :> Num(10))) }

\* values an index lookup asks for
LookupValues == {Null, Num(1), Num(2), Num(10)}

\* the lists of values of an index lookup: at most as many as an index has paths
LookupLists ==
    {<<>>} \cup {<<a>> : a \in LookupValues}
           \cup {<<a, b>> : a \in LookupValues, b \in LookupValues}

\* names for the parts of an index key in the output of a lookup: "", "a", "b"
OutNames == {<<>>, <<97>>, <<98>>}

\* the lists of values that select all the entries of an index and those of
\* one first component
SomeLookupLists == {<<>>, <<Num(1)>>}

\* the type names read operators are given: the types and "u", which no call
\* writes to
ReadTypes == Types \cup {<<117>>}

\* the index names read operators are given: the index names and "j", which
\* no call creates
ReadIndexNames == IndexNames \cup {<<106>>}

\* the lists of output names of an index lookup
OutKeyLists ==
    {<<>>, <<<<97>>>>, <<<<97>>, <<98>>>>, <<<<>>, <<98>>>>,
     <<<<97>>, <<>>, <<98>>>>, <<<<97>>, <<97>>>>}

\* ------------------------------------------------------------------------
\* The state
\* ------------------------------------------------------------------------

VARIABLES
    cfs,        \* the RocksDB column families: name -> (key bytes -> value bytes)
    metadata,   \* EQLDB.metadata.indices: type -> (index name -> paths)
    metafile,   \* metadata.json: whether it exists, and its bytes
    batch,      \* the EQLBatch the caller is filling: its operations and calls
    last,       \* the last call that completed, with its arguments and result
    prev,       \* the call that completed before last, when it was an insert
                \* of the type and key of last (NoCall otherwise)
    reopened,   \* the database was closed and opened again since last completed
    stored,     \* per type and key, the value of the last insert not followed by
                \* a delete, in the order the calls were committed
    exec        \* the execution of an operation tree under way: the operation,
                \* the position in its code, what is left of its inputs, its
                \* local variables, the calls made to the join function and the
                \* records handed to the consumer

vars == <<cfs, metadata, metafile, batch, last, prev, reopened, stored, exec>>

\* the state of the store, which the execution of an operation reads only
dbvars == <<cfs, metadata, metafile, batch, last, prev, reopened, stored>>

\* ------------------------------------------------------------------------
\* RocksDB: column families and write batches
\* ------------------------------------------------------------------------

\* the function with no element (an empty map, an empty column family)
Empty == <<>>

\* map m with key k set to v
MapPut(m, k, v) == [x \in (DOMAIN m) \cup {k} |-> IF x = k THEN v ELSE m[x]]

\* map m without key k
MapRemove(m, k) == [x \in (DOMAIN m) \ {k} |-> m[x]]

\* WriteBatch::put_cf and WriteBatch::delete_cf: one operation of a batch
PutOp(cf, k, v) == [del |-> FALSE, cf |-> cf, k |-> k, v |-> v]

DelOp(cf, k) == [del |-> TRUE, cf |-> cf, k |-> k, v |-> <<>>]

\* DB::create_cf: a new, empty column family
create_cf(c, name) == MapPut(c, name, Empty)

\* DB::drop_cf
drop_cf(c, name) == MapRemove(c, name)

\* a variant of ApplyOp whose put leaves a key that is already there as it is
ApplyOpKeepFirst(c, op) ==
    IF op.del THEN [c EXCEPT ![op.cf] = MapRemove(c[op.cf], op.k)]
    ELSE IF op.k \in DOMAIN c[op.cf] THEN c
    ELSE [c EXCEPT ![op.cf] = MapPut(c[op.cf], op.k, op.v)]

\* one operation of a batch applied to the column families
ApplyOp(c, op) ==
    IF op.del THEN [c EXCEPT ![op.cf] = MapRemove(c[op.cf], op.k)]
    ELSE [c EXCEPT ![op.cf] = MapPut(c[op.cf], op.k, op.v)]

\* DB::write: the operations of the batch applied in order, all at once
RECURSIVE db_write(_, _)
db_write(c, ops) ==
    IF ops = <<>> THEN c ELSE db_write(ApplyOp(c, Head(ops)), Tail(ops))

\* a variant of iterator_cf that yields the shorter keys first
RECURSIVE iterator_cf_by_length(_)
iterator_cf_by_length(m) ==
    IF DOMAIN m = {} THEN <<>>
    ELSE LET x == CHOOSE x \in DOMAIN m : \A y \in (DOMAIN m) \ {x} :
                      \/ Len(x) < Len(y)
                      \/ Len(x) = Len(y) /\ LexLess(x, y)
         IN  <<x>> \o iterator_cf_by_length(MapRemove(m, x))

\* DB::iterator_cf(cf, IteratorMode::Start): the keys of m in byte order
iterator_cf(m) == SortBytes(DOMAIN m)

\* DB::iterator_cf_opt(cf, opts, IteratorMode::From(from, Forward)) with
\* opts.set_iterate_upper_bound(upper): the keys k of m with from <= k < upper
iterator_cf_opt(m, from, upper) ==
    SortBytes({k \in DOMAIN m : LexLeq(from, k) /\ LexLess(k, upper)})

\* ------------------------------------------------------------------------
\* Metadata and metadata.json
\* ------------------------------------------------------------------------

\* "indices"
IndicesField == <<105, 110, 100, 105, 99, 101, 115>>

\* Metadata as the JSON value its Serialize writes
MetadataToValue(md) ==
    Obj(IndicesField :>
        Obj([t \in DOMAIN md |->
            Obj([i \in DOMAIN md[t] |->
                Arr([j \in 1..Len(md[t][i]) |-> Str(md[t][i][j])])])]))

\* the Metadata its Deserialize reads from a JSON value
ValueToMetadata(v) ==
    LET ts == v.o[IndicesField].o
    IN  [t \in DOMAIN ts |->
            [i \in DOMAIN ts[t].o |->
                [j \in 1..Len(ts[t].o[i].o) |-> ts[t].o[i].o[j].s]]]

NoFile == [exists |-> FALSE, bytes |-> <<>>]

\* save_metadata: the file is created or truncated and the metadata written
\* a variant of save_metadata that writes the types without their indices
save_metadata_types_only(md) ==
    [exists |-> TRUE, bytes |-> to_vec(MetadataToValue([t \in DOMAIN md |-> Empty]))]

save_metadata(md) == [exists |-> TRUE, bytes |-> to_vec(MetadataToValue(md))]

\* ------------------------------------------------------------------------
\* Index keys
\* ------------------------------------------------------------------------

\* "#idx_<record type>_<index name>"
index_cf_name(ref_type, index_name) ==
    <<35, 105, 100, 120, 95>> \o ref_type \o <<95>> \o index_name

\* the serialised values at the paths from position j on, each followed by 0
RECURSIVE IndexParts(_, _, _)
IndexParts(on, value, j) ==
    IF j > Len(on) THEN <<>>
    ELSE LET v2 == pointer(value, on[j])
         IN  (IF v2.some THEN to_vec(v2.v) ELSE to_vec(Null)) \o <<0>>
             \o IndexParts(on, value, j + 1)

\* index_key: the serialised values separated by 0, then the record key
index_key(on, key, value) == IndexParts(on, value, 1) \o key

\* values_key: the serialised values, each followed by 0
RECURSIVE values_key(_)
values_key(values) ==
    IF values = <<>> THEN <<>>
    ELSE to_vec(Head(values)) \o <<0>> \o values_key(Tail(values))

\* ------------------------------------------------------------------------
\* EQLDB: the record store.  A database state db is the record
\* [cfs, metadata, metafile].
\* ------------------------------------------------------------------------

\* the names of the indices of md in a fixed order (the HashMap iterates them
\* in no particular one; each index has its own column family, so the order
\* of their operations in a batch does not show)
IndexOrder(idxs) == SortBytes(DOMAIN idxs)

\* batch_insert, the loop over the indices of the type: one put per index
\* whose column family exists, from position j of the index names on
RECURSIVE InsertIndexOps(_, _, _, _, _, _, _)
InsertIndexOps(c, ref_type, idxs, names, j, kv, value) ==
    IF j > Len(names) THEN <<>>
    ELSE LET idx_cf == index_cf_name(ref_type, names[j])
         IN  (IF idx_cf \in DOMAIN c
              THEN <<PutOp(idx_cf, index_key(idxs[names[j]], kv, value), kv)>>
              ELSE <<>>)
             \o InsertIndexOps(c, ref_type, idxs, names, j + 1, kv, value)

\* a variant of batch_insert that also applies its puts to the database at once
batch_insert_eager(db, ops, rec_type, key, value) ==
    LET cfs1 == IF rec_type \in DOMAIN db.cfs THEN db.cfs
                ELSE create_cf(db.cfs, rec_type)
        md   == IF rec_type \in DOMAIN db.metadata THEN db.metadata
                ELSE MapPut(db.metadata, rec_type, Empty)
        put  == <<PutOp(rec_type, to_vec(key), to_vec(value))>>
    IN  [cfs |-> db_write(cfs1, put), metadata |-> md,
         metafile |-> IF md = db.metadata THEN db.metafile ELSE save_metadata(md),
         ops |-> ops \o put]

\* a variant of batch_insert that registers a new type in memory and does not
\* save the metadata
batch_insert_unsaved(db, ops, rec_type, key, value) ==
    LET cfs1 == IF rec_type \in DOMAIN db.cfs THEN db.cfs
                ELSE create_cf(db.cfs, rec_type)
        kv   == to_vec(key)
        ops1 == Append(ops, PutOp(rec_type, kv, to_vec(value)))
        idxs == IF rec_type \in DOMAIN db.metadata THEN db.metadata[rec_type] ELSE Empty
    IN  [cfs |-> cfs1,
         metadata |-> IF rec_type \in DOMAIN db.metadata THEN db.metadata
                      ELSE MapPut(db.metadata, rec_type, Empty),
         metafile |-> db.metafile,
         ops |-> ops1 \o InsertIndexOps(cfs1, rec_type, idxs, IndexOrder(idxs), 1,
                                        kv, value)]

\* a variant of batch_insert that leaves the catalog to the write of the
\* batch: the call creates the namespace and registers nothing
batch_insert_unregistered(db, ops, rec_type, key, value) ==
    LET cfs1 == IF rec_type \in DOMAIN db.cfs THEN db.cfs
                ELSE create_cf(db.cfs, rec_type)
        kv   == to_vec(key)
        ops1 == Append(ops, PutOp(rec_type, kv, to_vec(value)))
        idxs == IF rec_type \in DOMAIN db.metadata THEN db.metadata[rec_type] ELSE Empty
    IN  [cfs |-> cfs1, metadata |-> db.metadata, metafile |-> db.metafile,
         ops |-> ops1 \o InsertIndexOps(cfs1, rec_type, idxs, IndexOrder(idxs), 1,
                                        kv, value)]

\* batch_insert: the database and the operations of the batch after the call
batch_insert(db, ops, rec_type, key, value) ==
    LET cfs1 == IF rec_type \in DOMAIN db.cfs THEN db.cfs
                ELSE create_cf(db.cfs, rec_type)
        kv   == to_vec(key)
        ops1 == Append(ops, PutOp(rec_type, kv, to_vec(value)))
    IN  IF rec_type \in DOMAIN db.metadata
        THEN [cfs |-> cfs1, metadata |-> db.metadata, metafile |-> db.metafile,
              ops |-> ops1 \o InsertIndexOps(cfs1, rec_type, db.metadata[rec_type],
                                 IndexOrder(db.metadata[rec_type]), 1, kv, value)]
        ELSE LET md == MapPut(db.metadata, rec_type, Empty)
             IN  [cfs |-> cfs1, metadata |-> md, metafile |-> save_metadata(md),
                  ops |-> ops1]

\* a variant of DeleteIndexOps that deletes no index entry
DeleteIndexOpsNone(c, ref_type, idxs, names, j, kv, value) == <<>>

\* batch_delete, the loop over the indices of the type: one delete per index
\* whose column family exists
RECURSIVE DeleteIndexOps(_, _, _, _, _, _, _)
DeleteIndexOps(c, ref_type, idxs, names, j, kv, value) ==
    IF j > Len(names) THEN <<>>
    ELSE LET idx_cf == index_cf_name(ref_type, names[j])
         IN  (IF idx_cf \in DOMAIN c
              THEN <<DelOp(idx_cf, index_key(idxs[names[j]], kv, value))>>
              ELSE <<>>)
             \o DeleteIndexOps(c, ref_type, idxs, names, j + 1, kv, value)

\* batch_delete: the operations of the batch after the call; the value the
\* index keys are computed from is the one the database holds at the call
batch_delete(db, ops, rec_type, key) ==
    IF rec_type \notin DOMAIN db.cfs THEN ops
    ELSE LET kv == to_vec(key)
             idxs == IF rec_type \in DOMAIN db.metadata
                     THEN db.metadata[rec_type] ELSE Empty
             ixops == IF DOMAIN idxs # {} /\ kv \in DOMAIN db.cfs[rec_type]
                      THEN DeleteIndexOps(db.cfs, rec_type, idxs, IndexOrder(idxs), 1,
                                          kv, from_slice(db.cfs[rec_type][kv]))
                      ELSE <<>>
         IN  (ops \o ixops) \o <<DelOp(rec_type, kv)>>

\* a variant of insert that fills the batch and never writes it
insert_unwritten(db, rec_type, key, value) ==
    LET r == batch_insert(db, <<>>, rec_type, key, value)
    IN  [cfs |-> r.cfs, metadata |-> r.metadata, metafile |-> r.metafile]

\* insert: batch_insert into a new batch, then DB::write
insert(db, rec_type, key, value) ==
    LET r == batch_insert(db, <<>>, rec_type, key, value)
    IN  [cfs |-> db_write(r.cfs, r.ops), metadata |-> r.metadata,
         metafile |-> r.metafile]

\* a variant of delete that creates the namespace of a type that has none,
\* as batch_insert does
delete_creating_cf(db, rec_type, key) ==
    LET cfs1 == IF rec_type \in DOMAIN db.cfs THEN db.cfs
                ELSE create_cf(db.cfs, rec_type)
        db1  == [db EXCEPT !.cfs = cfs1]
    IN  [db1 EXCEPT !.cfs = db_write(cfs1, batch_delete(db1, <<>>, rec_type, key))]

\* delete: batch_delete into a new batch, then DB::write
delete(db, rec_type, key) ==
    [db EXCEPT !.cfs = db_write(db.cfs, batch_delete(db, <<>>, rec_type, key))]

\* get: the value stored under the key, if the type and the key exist
get(db, rec_type, key) ==
    IF rec_type \in DOMAIN db.cfs /\ to_vec(key) \in DOMAIN db.cfs[rec_type]
    THEN Some(from_slice(db.cfs[rec_type][to_vec(key)]))
    ELSE NoValue

\* EQLRecord::new
EQLRecord(key, value) == [key |-> key, value |-> value]

\* execute(Operation::Scan): the records of the type in the order of their keys
Scan(db, name) ==
    IF name \in DOMAIN db.cfs
    THEN LET it == iterator_cf(db.cfs[name])
         IN  [j \in 1..Len(it) |->
                 EQLRecord(from_slice(it[j]), from_slice(db.cfs[name][it[j]]))]
    ELSE <<>>

\* execute(Operation::KeyLookup): the record stored under the key, if the type
\* and the key exist
KeyLookup(db, name, key) ==
    IF name \in DOMAIN db.cfs /\ to_vec(key) \in DOMAIN db.cfs[name]
    THEN <<EQLRecord(key, from_slice(db.cfs[name][to_vec(key)]))>>
    ELSE <<>>

\* add_index, the try_fold over the scan: recs[j..] are still to come, b is the
\* batch being filled; a batch longer than FlushLimit is written and a new one
\* started; the batch the fold ends with is dropped with the fold's result
RECURSIVE BackFill(_, _, _, _, _, _)
BackFill(c, recs, j, b, idx_cf, on) ==
    IF j > Len(recs) THEN c
    ELSE LET kv == to_vec(recs[j].key)
             b1 == Append(b, PutOp(idx_cf, index_key(on, kv, recs[j].value), kv))
         IN  IF Len(b1) > FlushLimit
             THEN BackFill(db_write(c, b1), recs, j + 1, <<>>, idx_cf, on)
             ELSE BackFill(c, recs, j + 1, b1, idx_cf, on)

\* a variant of add_index that, for an index name the type already has,
\* replaces the paths of the index and returns Ok
add_index_replace(db, rec_type, idx_name, on) ==
    LET md == [t \in (DOMAIN db.metadata) \cup {rec_type} |->
                  IF t = rec_type
                  THEN MapPut(IF t \in DOMAIN db.metadata THEN db.metadata[t] ELSE Empty,
                              idx_name, on)
                  ELSE db.metadata[t]]
        idx_cf == index_cf_name(rec_type, idx_name)
    IN  [db |-> [cfs |-> IF idx_cf \in DOMAIN db.cfs THEN db.cfs
                         ELSE create_cf(db.cfs, idx_cf),
                 metadata |-> md, metafile |-> save_metadata(md)],
         ok |-> TRUE, err |-> "none"]

\* add_index: the database after the call, whether it returned Ok, and the
\* error it returned otherwise (MetadataError::DuplicateIndex, or the error of
\* DB::create_cf)
add_index(db, rec_type, idx_name, on) ==
    LET md0 == IF rec_type \in DOMAIN db.metadata THEN db.metadata
               ELSE MapPut(db.metadata, rec_type, Empty)
        idx_cf == index_cf_name(rec_type, idx_name)
    IN  IF idx_name \in DOMAIN md0[rec_type]
        THEN [db |-> [db EXCEPT !.metadata = md0], ok |-> FALSE,
              err |-> "DuplicateIndex"]
        ELSE IF idx_cf \in DOMAIN db.cfs
        THEN [db |-> [db EXCEPT !.metadata = md0], ok |-> FALSE,
              err |-> "rocksdb"]
        ELSE LET cfs1 == create_cf(db.cfs, idx_cf)
                 md   == [md0 EXCEPT ![rec_type] = MapPut(md0[rec_type], idx_name, on)]
                 db1  == [cfs |-> cfs1, metadata |-> md, metafile |-> save_metadata(md)]
             IN  [db |-> [db1 EXCEPT !.cfs =
                            BackFill(cfs1, Scan(db1, rec_type), 1, <<>>, idx_cf, on)],
                  ok |-> TRUE, err |-> "none"]

\* a variant of delete_index that forgets a type when its last index goes
delete_index_forgetting_type(db, rec_type, idx_name) ==
    IF rec_type \notin DOMAIN db.metadata THEN [db |-> db, ok |-> TRUE]
    ELSE LET left == MapRemove(db.metadata[rec_type], idx_name)
             md == IF left = Empty THEN MapRemove(db.metadata, rec_type)
                   ELSE [db.metadata EXCEPT ![rec_type] = left]
             idx_cf == index_cf_name(rec_type, idx_name)
         IN  IF idx_cf \notin DOMAIN db.cfs
             THEN [db |-> [db EXCEPT !.metadata = md], ok |-> FALSE]
             ELSE [db |-> [cfs |-> drop_cf(db.cfs, idx_cf), metadata |-> md,
                           metafile |-> save_metadata(md)],
                   ok |-> TRUE]

\* a variant of add_index_interrupted that saves the catalog after the
\* back-fill only: the failure leaves metadata.json as it was
add_index_interrupted_unsaved(db, rec_type, idx_name, on, j) ==
    LET md0 == IF rec_type \in DOMAIN db.metadata THEN db.metadata
               ELSE MapPut(db.metadata, rec_type, Empty)
        idx_cf == index_cf_name(rec_type, idx_name)
        cfs1 == create_cf(db.cfs, idx_cf)
        md   == [md0 EXCEPT ![rec_type] = MapPut(md0[rec_type], idx_name, on)]
        db1  == [cfs |-> cfs1, metadata |-> md, metafile |-> db.metafile]
        recs == Scan(db1, rec_type)
    IN  [db1 EXCEPT !.cfs = BackFill(cfs1, SubSeq(recs, 1, j - 1), 1, <<>>, idx_cf, on)]

\* add_index that fails while the back-fill is at record j of the scan (the
\* process stops, or the fold returns the error of a write): the index has its
\* column family, is in the catalog and the catalog is saved; of the back-fill
\* what was written before record j is there
add_index_interrupted(db, rec_type, idx_name, on, j) ==
    LET md0 == IF rec_type \in DOMAIN db.metadata THEN db.metadata
               ELSE MapPut(db.metadata, rec_type, Empty)
        idx_cf == index_cf_name(rec_type, idx_name)
        cfs1 == create_cf(db.cfs, idx_cf)
        md   == [md0 EXCEPT ![rec_type] = MapPut(md0[rec_type], idx_name, on)]
        db1  == [cfs |-> cfs1, metadata |-> md, metafile |-> save_metadata(md)]
        recs == Scan(db1, rec_type)
    IN  [db1 EXCEPT !.cfs = BackFill(cfs1, SubSeq(recs, 1, j - 1), 1, <<>>, idx_cf, on)]

\* delete_index: the database after the call and whether it returned Ok
delete_index(db, rec_type, idx_name) ==
    IF rec_type \notin DOMAIN db.metadata THEN [db |-> db, ok |-> TRUE]
    ELSE LET md == [db.metadata EXCEPT ![rec_type] = MapRemove(@, idx_name)]
             idx_cf == index_cf_name(rec_type, idx_name)
         IN  IF idx_cf \notin DOMAIN db.cfs
             THEN [db |-> [db EXCEPT !.metadata = md], ok |-> FALSE]
             ELSE [db |-> [cfs |-> drop_cf(db.cfs, idx_cf), metadata |-> md,
                           metafile |-> save_metadata(md)],
                   ok |-> TRUE]

\* the column families open lists: one per type of the metadata and one per
\* index
OpenCfNames(md) ==
    (DOMAIN md) \cup
    UNION {{index_cf_name(t, i) : i \in DOMAIN md[t]} : t \in DOMAIN md}

\* open: the metadata is read from metadata.json if there is one, and the
\* column families it lists are opened, the missing ones being created;
\* open_cf_descriptors fails (and unwrap panics) when the database has a
\* column family that is not listed
open(db) ==
    LET md == IF db.metafile.exists
              THEN ValueToMetadata(from_slice(db.metafile.bytes)) ELSE Empty
        listed == OpenCfNames(md)
    IN  IF (DOMAIN db.cfs) \subseteq listed
        THEN [db |-> [cfs |-> [n \in listed |->
                                  IF n \in DOMAIN db.cfs THEN db.cfs[n] ELSE Empty],
                      metadata |-> md, metafile |-> db.metafile],
              ok |-> TRUE]
        ELSE [db |-> db, ok |-> FALSE]

\* ------------------------------------------------------------------------
\* execute: index lookups
\* ------------------------------------------------------------------------

\* a variant of ZipParts that inserts the parts with an empty name too
RECURSIVE ZipPartsAll(_, _, _, _)
ZipPartsAll(parts, keys, j, im) ==
    IF j > Len(parts) \/ j > Len(keys) THEN im
    ELSE ZipPartsAll(parts, keys, j + 1, MapPut(im, keys[j], from_slice(parts[j])))

\* extract_from_index_key, the loop over the zip of the parts of the index key
\* and the names: a part whose name is not empty is inserted under its name,
\* im being the BTreeMap built so far
RECURSIVE ZipParts(_, _, _, _)
ZipParts(parts, keys, j, im) ==
    IF j > Len(parts) \/ j > Len(keys) THEN im
    ELSE ZipParts(parts, keys, j + 1,
                  IF keys[j] # <<>> THEN MapPut(im, keys[j], from_slice(parts[j]))
                  ELSE im)

\* extract_from_index_key: the JSON object built from an index key and the
\* names of its parts
extract_from_index_key(k, keys) == Obj(ZipParts(Split(k, 0), keys, 1, Empty))

\* the lower bound of a lookup: the serialised values, each followed by 0
RECURSIVE LookupFrom(_)
LookupFrom(values) ==
    IF values = <<>> THEN <<>>
    ELSE to_vec(Head(values)) \o <<0>> \o LookupFrom(Tail(values))

\* a variant of LookupUpper that drops the separator: the last byte of the
\* last serialised value is raised by one
LookupUpperNoSeparator(v) == Append(SubSeq(v, 1, Len(v) - 2), v[Len(v) - 1] + 1)

\* the upper bound of a lookup: the lower bound with its last byte replaced by 1
LookupUpper(v) == Append(SubSeq(v, 1, Len(v) - 1), 1)

\* the keys of index column family m that a lookup of values iterates over
LookupIter(m, values) ==
    IF values = <<>> THEN iterator_cf(m)
    ELSE iterator_cf_opt(m, LookupFrom(values), LookupUpper(LookupFrom(values)))

\* a variant of IndexLookup that scans the type when the index has no namespace
IndexLookupOrScan(db, name, index_name, values, keys) ==
    LET idx_cf == index_cf_name(name, index_name)
    IN  IF idx_cf \in DOMAIN db.cfs
        THEN LET it == LookupIter(db.cfs[idx_cf], values)
             IN  [j \in 1..Len(it) |->
                     EQLRecord(from_slice(db.cfs[idx_cf][it[j]]),
                               extract_from_index_key(it[j], keys))]
        ELSE Scan(db, name)

\* execute(Operation::IndexLookup): one record per index entry iterated over,
\* its key read from the entry's value and its value from the entry's key
IndexLookup(db, name, index_name, values, keys) ==
    LET idx_cf == index_cf_name(name, index_name)
    IN  IF idx_cf \in DOMAIN db.cfs
        THEN LET it == LookupIter(db.cfs[idx_cf], values)
             IN  [j \in 1..Len(it) |->
                     EQLRecord(from_slice(db.cfs[idx_cf][it[j]]),
                               extract_from_index_key(it[j], keys))]
        ELSE <<>>

\* ------------------------------------------------------------------------
\* The calls
\* ------------------------------------------------------------------------

DB == [cfs |-> cfs, metadata |-> metadata, metafile |-> metafile]

\* what last records of a call (the arguments of a batch_* call are in the
\* batch)
Call(op, rec_type, key, value, idx_name, on, ok) ==
    [op |-> op, rec_type |-> rec_type, key |-> key, value |-> value,
     idx_name |-> idx_name, on |-> on, ok |-> ok]

NoCall == Call("none", <<>>, Null, Null, <<>>, <<>>, TRUE)

EmptyBatch == [ops |-> <<>>, calls |-> <<>>]

\* stored after the calls cs were committed in their order
RECURSIVE Commit(_, _)
Commit(st, cs) ==
    IF cs = <<>> THEN st
    ELSE Commit([st EXCEPT ![Head(cs).rec_type][Head(cs).key] =
                    IF Head(cs).op = "insert" THEN Some(Head(cs).value) ELSE NoValue],
                Tail(cs))

\* call c completed
Completed(c) ==
    /\ last' = c
    /\ prev' = IF last.op = "insert" /\ last.rec_type = c.rec_type /\ last.key = c.key
               THEN last ELSE NoCall
    /\ reopened' = FALSE
    /\ UNCHANGED exec

\* no operation is being executed
Idle ==
    [pc |-> "idle", op |-> [kind |-> "none"], it1 |-> <<>>, it2 |-> <<>>,
     orec1 |-> NoValue, orec2 |-> NoValue, map |-> Empty, v |-> <<>>,
     calls |-> <<>>, out |-> <<>>, err |-> "none"]

Init ==
    /\ cfs = Empty
    /\ metadata = Empty
    /\ metafile = NoFile
    /\ batch = EmptyBatch
    /\ last = NoCall
    /\ prev = NoCall
    /\ reopened = FALSE
    /\ stored = [t \in Types |-> [k \in Keys |-> NoValue]]
    /\ exec = Idle

Insert(t, k, v) ==
    LET r == insert(DB, t, k, v)
        c == Call("insert", t, k, v, <<>>, <<>>, TRUE)
    IN  /\ Completed(c)
        /\ cfs' = r.cfs
        /\ metadata' = r.metadata
        /\ metafile' = r.metafile
        /\ stored' = Commit(stored, <<c>>)
        /\ UNCHANGED batch

Delete(t, k) ==
    LET r == delete(DB, t, k)
        c == Call("delete", t, k, Null, <<>>, <<>>, TRUE)
    IN  /\ Completed(c)
        /\ cfs' = r.cfs
        /\ stored' = Commit(stored, <<c>>)
        /\ UNCHANGED <<metadata, metafile, batch>>

BatchInsert(t, k, v) ==
    /\ Len(batch.calls) < MaxBatch
    /\ LET r == batch_insert(DB, batch.ops, t, k, v)
       IN  /\ cfs' = r.cfs
           /\ metadata' = r.metadata
           /\ metafile' = r.metafile
           /\ batch' = [ops |-> r.ops,
                        calls |-> Append(batch.calls,
                                         Call("insert", t, k, v, <<>>, <<>>, TRUE))]
           /\ Completed(Call("batch_insert", <<>>, Null, Null, <<>>, <<>>, TRUE))
           /\ UNCHANGED stored

BatchDelete(t, k) ==
    /\ Len(batch.calls) < MaxBatch
    /\ batch' = [ops |-> batch_delete(DB, batch.ops, t, k),
                 calls |-> Append(batch.calls,
                                  Call("delete", t, k, Null, <<>>, <<>>, TRUE))]
    /\ Completed(Call("batch_delete", <<>>, Null, Null, <<>>, <<>>, TRUE))
    /\ UNCHANGED <<cfs, metadata, metafile, stored>>

\* write(batch): the batch is moved into the call
Write ==
    /\ batch # EmptyBatch
    /\ cfs' = db_write(cfs, batch.ops)
    /\ batch' = EmptyBatch
    /\ Completed(Call("write", <<>>, Null, Null, <<>>, <<>>, TRUE))
    /\ stored' = Commit(stored, batch.calls)
    /\ UNCHANGED <<metadata, metafile>>

\* the caller drops the batch without writing it
DropBatch ==
    /\ batch # EmptyBatch
    /\ batch' = EmptyBatch
    /\ Completed(Call("drop_batch", <<>>, Null, Null, <<>>, <<>>, TRUE))
    /\ UNCHANGED <<cfs, metadata, metafile, stored>>

AddIndex(t, i, on) ==
    LET r == add_index(DB, t, i, on)
    IN  /\ cfs' = r.db.cfs
        /\ metadata' = r.db.metadata
        /\ metafile' = r.db.metafile
        /\ Completed(Call("add_index", t, Null, Null, i, on, r.ok))
        /\ UNCHANGED <<batch, stored>>

\* delete_index; a batch that holds operations on the column family of the
\* index is written or dropped before the column family is dropped
DeleteIndex(t, i) ==
    /\ \A j \in 1..Len(batch.ops) : batch.ops[j].cf # index_cf_name(t, i)
    /\ LET r == delete_index(DB, t, i)
       IN  /\ cfs' = r.db.cfs
           /\ metadata' = r.db.metadata
           /\ metafile' = r.db.metafile
           /\ Completed(Call("delete_index", t, Null, Null, i, <<>>, r.ok))
           /\ UNCHANGED <<batch, stored>>

\* add_index fails in the middle of its back-fill: it has passed the check
\* for a duplicate and created the column family, and the scan has a record
AddIndexInterrupted(t, i, on) ==
    /\ ~(t \in DOMAIN metadata /\ i \in DOMAIN metadata[t])
    /\ index_cf_name(t, i) \notin DOMAIN cfs
    /\ \E j \in 1..Len(Scan(DB, t)) :
          LET r == add_index_interrupted(DB, t, i, on, j)
          IN  /\ cfs' = r.cfs
              /\ metadata' = r.metadata
              /\ metafile' = r.metafile
              /\ Completed(Call("add_index_interrupted", t, Null, Null, i, on, FALSE))
              /\ UNCHANGED <<batch, stored>>

\* the handle is dropped and the database opened again
Reopen ==
    LET r == open(DB)
    IN  /\ r.ok
        /\ cfs' = r.db.cfs
        /\ metadata' = r.db.metadata
        /\ metafile' = r.db.metafile
        /\ reopened' = TRUE
        /\ UNCHANGED <<batch, last, prev, stored, exec>>

\* the single calls of the record store and of the catalog
Next ==
    \/ \E t \in Types, k \in Keys, v \in RecValues : Insert(t, k, v)
    \/ \E t \in Types, k \in Keys : Delete(t, k)
    \/ \E t \in Types, i \in IndexNames, on \in IndexDefs : AddIndex(t, i, on)
    \/ \E t \in Types, i \in IndexNames : DeleteIndex(t, i)
    \/ Reopen

Spec == Init /\ [][Next]_vars

\* the single calls, add_index failing in the middle of its back-fill among
\* them
NextFill ==
    \/ \E t \in Types, k \in Keys, v \in RecValues : Insert(t, k, v)
    \/ \E t \in Types, k \in Keys : Delete(t, k)
    \/ \E t \in Types, i \in IndexNames, on \in IndexDefs : AddIndexInterrupted(t, i, on)
    \/ \E t \in Types, i \in IndexNames : DeleteIndex(t, i)
    \/ Reopen

SpecFill == Init /\ [][NextFill]_vars

\* the calls that fill, write and drop a batch, and the calls of the catalog;
\* insert and delete are a batch of one call written at once
NextBatch ==
    \/ \E t \in Types, k \in Keys, v \in RecValues : BatchInsert(t, k, v)
    \/ \E t \in Types, k \in Keys : BatchDelete(t, k)
    \/ Write
    \/ DropBatch
    \/ \E t \in Types, i \in IndexNames, on \in IndexDefs : AddIndex(t, i, on)
    \/ \E t \in Types, i \in IndexNames : DeleteIndex(t, i)

SpecBatch == Init /\ [][NextBatch]_vars

\* ------------------------------------------------------------------------
\* execute: the operators over streams of records
\* ------------------------------------------------------------------------

\* the member names "c" and "d"
NameC == <<99>>

NameD == <<100>>

\* the JSON pointer "/c"
PathC == <<47, 99>>

\* the records the input streams are made of, by ascending key: the values
\* {"c":1}, {"c":"1"}, {"c":1,"d":2} and 5; the first and the third have the
\* same member c, the second has the string "1" where they have the number 1,
\* the last is not a mapping
QRecList ==
    << EQLRecord(Num(1), Obj(NameC :> Num(1))),
       EQLRecord(Num(2), Obj(NameC :> Str(<<49>>))),
       EQLRecord(Num(3), Obj((NameC :> Num(1)) @@ (NameD :> Num(2)))),
       EQLRecord(Num(4), Num(5)) >>

QRecs == Range(QRecList)

\* the streams a child operation yields: at most MaxStream records
Streams == UNION {[1..n -> QRecs] : n \in 0..MaxStream}

\* the sets of names of an extract: none, "c", and "c" with "e", which no
\* record has
NameSets == {{}, {NameC}, {NameC, <<101>>}}

\* the values of an augment: {"c":9,"e":7}, {} and 3
AugmentValues ==
    {Obj((NameC :> Num(9)) @@ (<<101>> :> Num(7))), Obj(Empty), Num(3)}

\* a variant of extract_from_value that gives the names the mapping lacks the
\* value null
extract_from_value_filling(value, names) ==
    IF value.tag = "obj"
    THEN Obj([n \in names |-> IF n \in DOMAIN value.o THEN value.o[n] ELSE Null])
    ELSE value

\* extract_from_value: of a mapping, the members whose name is in names; any
\* other value as it is
extract_from_value(value, names) ==
    IF value.tag = "obj"
    THEN Obj([n \in {x \in names : x \in DOMAIN value.o} |-> value.o[n]])
    ELSE value

\* a variant of merge_values where the members of first replace those of second
merge_values_overwriting(first, second) ==
    IF first.tag = "obj" /\ DOMAIN first.o # {} /\ second.tag = "obj"
    THEN Obj([k \in (DOMAIN first.o) \cup (DOMAIN second.o) |->
                 IF k \in DOMAIN first.o THEN first.o[k] ELSE second.o[k]])
    ELSE second

\* merge_values: when both are mappings and first is not empty, second with
\* the members of first it does not have; second as it is otherwise
merge_values(first, second) ==
    IF first.tag = "obj" /\ DOMAIN first.o # {} /\ second.tag = "obj"
    THEN Obj([k \in (DOMAIN first.o) \cup (DOMAIN second.o) |->
                 IF k \in DOMAIN second.o THEN second.o[k] ELSE first.o[k]])
    ELSE second

\* the closure Extract and Augment map over the records of their child: the
\* record with its value replaced
MapRecord(op, rec) ==
    IF op.kind = "Extract"
    THEN [rec EXCEPT !.value = extract_from_value(rec.value, op.names)]
    ELSE [rec EXCEPT !.value = merge_values(op.value, rec.value)]

\* execute(Operation::Extract): a map over the stream of the child
StartExtract ==
    /\ exec.pc = "idle"
    /\ \E names \in NameSets, child \in Streams :
        /\ exec' = [Idle EXCEPT !.pc = "map", !.it1 = child,
                                !.op = [kind |-> "Extract", names |-> names,
                                        operation |-> child]]
        /\ UNCHANGED dbvars

\* execute(Operation::Augment): a map over the stream of the child
StartAugment ==
    /\ exec.pc = "idle"
    /\ \E value \in AugmentValues, child \in Streams :
        /\ exec' = [Idle EXCEPT !.pc = "map", !.it1 = child,
                                !.op = [kind |-> "Augment", value |-> value,
                                        operation |-> child]]
        /\ UNCHANGED dbvars

\* the consumer asks the map for its next record
MapNext ==
    /\ exec.pc = "map"
    /\ exec' = IF exec.it1 = <<>> THEN [exec EXCEPT !.pc = "done"]
               ELSE [exec EXCEPT !.it1 = Tail(@),
                                 !.out = Append(@, MapRecord(exec.op, Head(exec.it1)))]
    /\ UNCHANGED dbvars

\* the script "rec.value.c" of a record extract
ScriptC == <<114, 101, 99, 46, 118, 97, 108, 117, 101, 46, 99>>

\* Engine::eval_ast_with_scope on ScriptC with rec in scope: the member c of a
\* mapping (the unit value, null, when it has none); a property of a value
\* that is not a mapping is an evaluation error
eval_ast_with_scope(script, rec) ==
    IF rec.value.tag = "obj"
    THEN [ok |-> TRUE,
          v |-> IF NameC \in DOMAIN rec.value.o THEN rec.value.o[NameC] ELSE Null]
    ELSE [ok |-> FALSE, v |-> Null]

\* ScriptedRecordExtract::into_rust: the closure of a Script extract; an
\* evaluation error is printed and the closure returns null
ScriptFunction(script, rec) ==
    LET r == eval_ast_with_scope(script, rec)
    IN  IF r.ok THEN r.v ELSE Null

\* the record extracts Key, Pointer("/c") and Function(closure of ScriptC)
ExtractKey == [kind |-> "Key", s |-> <<>>]

ExtractPointerC == [kind |-> "Pointer", s |-> PathC]

ExtractScriptC == [kind |-> "Function", s |-> ScriptC]

\* RecordExtract::apply; a Function that returns null gives None
apply(e, rec) ==
    CASE e.kind = "Key" -> Some(rec.key)
      [] e.kind = "Value" -> Some(rec.value)
      [] e.kind = "Pointer" -> pointer(rec.value, e.s)
      [] e.kind = "Function" ->
            LET v == ScriptFunction(e.s, rec)
            IN  IF v = Null THEN NoValue ELSE Some(v)

\* a variant of format that prints a string without its quotes
format_unquoted(value) == IF value.tag = "str" THEN value.s ELSE to_vec(value)

\* format!("{}", value): Display of a Value is its compact JSON text
format(value) == to_vec(value)

\* a variant of ensure_not_empty that keeps every record
ensure_not_empty_keeping_all(rec) == Some(rec)

\* EQLRecord::ensure_not_empty: None for the record whose key and value are
\* both null, the record otherwise
ensure_not_empty(rec) ==
    IF rec.key.tag = "null" /\ rec.value.tag = "null" THEN NoValue ELSE Some(rec)

\* the closure into_rust makes of the join script of a HashJoin or a Merge:
\* the script is evaluated with build and probe (rec1 and rec2 for a merge)
\* bound to the records, a record that is absent being the empty record, and
\* the record it returns goes through ensure_not_empty; the scripts are those
\* that return one of their records and the one that returns empty_record()
ScriptedJoin(script, orec1, orec2) ==
    LET e == EQLRecord(Null, Null)
    IN  ensure_not_empty(
            CASE script \in {"build", "rec1"} -> IF orec1.some THEN orec1.v ELSE e
              [] script \in {"probe", "rec2"} -> IF orec2.some THEN orec2.v ELSE e
              [] script = "empty_record()" -> e)

\* the join functions of a hash join: "outer" gives the probe record with the
\* members of the build record it lacks, or the probe record alone when there
\* is no build record; "inner" gives nothing when there is no build record
HashJoinFunctions == {"outer", "inner", "build", "probe", "empty_record()"}

HashJoin(join, orec, rec) ==
    IF join \notin {"outer", "inner"} THEN ScriptedJoin(join, orec, Some(rec))
    ELSE IF orec.some THEN Some([rec EXCEPT !.value = merge_values(orec.v.value, rec.value)])
    ELSE IF join = "outer" THEN Some(rec) ELSE NoValue

\* the pairs of build and probe extracts of a hash join
HashExtracts ==
    {<<ExtractKey, ExtractPointerC>>, <<ExtractPointerC, ExtractPointerC>>,
     <<ExtractScriptC, ExtractScriptC>>}

\* execute(Operation::HashLookup): the build side is about to be collected
StartHashLookup ==
    /\ exec.pc = "idle"
    /\ \E build \in Streams, probe \in Streams, x \in HashExtracts,
          join \in HashJoinFunctions :
        LET build_hash == x[1]
            probe_hash == x[2]
        IN
        /\ exec' = [Idle EXCEPT !.pc = "build", !.it1 = build, !.it2 = probe,
                                !.op = [kind |-> "HashLookup", build |-> build,
                                        build_hash |-> build_hash, probe |-> probe,
                                        probe_hash |-> probe_hash, join |-> join]]
        /\ UNCHANGED dbvars

\* a variant of BuildInsert that keeps the record the key already has
BuildInsertKeepFirst(m, build_hash, rec) ==
    LET s == apply(build_hash, rec)
    IN  IF s.some /\ format(s.v) \notin DOMAIN m THEN MapPut(m, format(s.v), rec) ELSE m

\* collect() into the HashMap, one record of the build side: the record is
\* inserted under the text of its extract, if it has one
BuildInsert(m, build_hash, rec) ==
    LET s == apply(build_hash, rec)
    IN  IF s.some THEN MapPut(m, format(s.v), rec) ELSE m

\* collect() takes the next record of the build side, or ends
BuildNext ==
    /\ exec.pc = "build"
    /\ exec' = IF exec.it1 = <<>> THEN [exec EXCEPT !.pc = "probe"]
               ELSE [exec EXCEPT !.it1 = Tail(@),
                                 !.map = BuildInsert(@, exec.op.build_hash, Head(exec.it1))]
    /\ UNCHANGED dbvars

\* a variant of ProbeRecord that drops the probe records the map has no key for
ProbeRecordMatchedOnly(e, rec) ==
    LET h == apply(e.op.probe_hash, rec)
        n == Len(e.op.probe) - Len(e.it2) + 1
        o == IF h.some /\ format(h.v) \in DOMAIN e.map
             THEN Some(e.map[format(h.v)]) ELSE NoValue
    IN  IF ~o.some THEN [e EXCEPT !.it2 = Tail(@)]
        ELSE [e EXCEPT !.it2 = Tail(@),
                       !.calls = Append(@, [n |-> n, first |-> o, second |-> Some(rec)]),
                       !.out = @ \o <<HashJoin(e.op.join, o, rec).v>>]

\* the flat_map over the probe side, one record: if the record has an extract,
\* the join function is called with what the map holds under its text
ProbeRecord(e, rec) ==
    LET h == apply(e.op.probe_hash, rec)
        n == Len(e.op.probe) - Len(e.it2) + 1
    IN  IF ~h.some THEN [e EXCEPT !.it2 = Tail(@)]
        ELSE LET o == IF format(h.v) \in DOMAIN e.map
                      THEN Some(e.map[format(h.v)]) ELSE NoValue
                 r == HashJoin(e.op.join, o, rec)
             IN  [e EXCEPT !.it2 = Tail(@),
                           !.calls = Append(@, [n |-> n, first |-> o, second |-> Some(rec)]),
                           !.out = IF r.some THEN Append(@, r.v) ELSE @]

\* the consumer asks the hash join for its next record: the next probe record
\* is read, or the probe side ends
ProbeNext ==
    /\ exec.pc = "probe"
    /\ exec' = IF exec.it2 = <<>> THEN [exec EXCEPT !.pc = "done"]
               ELSE ProbeRecord(exec, Head(exec.it2))
    /\ UNCHANGED dbvars

\* RecordExtract::multiple: the values the extracts give for the record, those
\* that give none left out
RECURSIVE multiple(_, _)
multiple(exs, rec) ==
    IF exs = <<>> THEN <<>>
    ELSE LET o == apply(Head(exs), rec)
         IN  (IF o.some THEN <<o.v>> ELSE <<>>) \o multiple(Tail(exs), rec)

\* the join functions of a merge: "full" gives the second record with the
\* members of the first it lacks, or the one record there is; "inner" gives a
\* record only when there are two
MergeJoinFunctions == {"full", "inner", "rec1", "rec2", "empty_record()"}

MergeJoin(join, orec1, orec2) ==
    IF join \notin {"full", "inner"} THEN ScriptedJoin(join, orec1, orec2)
    ELSE IF orec1.some /\ orec2.some
    THEN Some([orec2.v EXCEPT !.value = merge_values(orec1.v.value, @)])
    ELSE IF join = "inner" THEN NoValue
    ELSE IF orec1.some THEN orec1 ELSE orec2

\* the pairs of key extracts of a merge: the record keys, and the member c
MergeKeys ==
    {<<<<ExtractKey>>, <<ExtractKey>>>>, <<<<ExtractPointerC>>, <<ExtractPointerC>>>>}

\* Iterator::next on what is left of a stream
next(it) == IF it = <<>> THEN NoValue ELSE Some(Head(it))

\* execute(Operation::Merge) up to the loop: both children are executed, v is
\* empty and the first record of each side is taken
StartMerge ==
    /\ exec.pc = "idle"
    /\ \E first \in Streams, second \in Streams, x \in MergeKeys,
          join \in MergeJoinFunctions :
        LET first_key == x[1]
            second_key == x[2]
        IN
        /\ exec' = [Idle EXCEPT !.pc = "merge",
                                !.orec1 = next(first), !.it1 = IF first = <<>> THEN <<>> ELSE Tail(first),
                                !.orec2 = next(second), !.it2 = IF second = <<>> THEN <<>> ELSE Tail(second),
                                !.op = [kind |-> "Merge", first |-> first,
                                        first_key |-> first_key, second |-> second,
                                        second_key |-> second_key, join |-> join]]
        /\ UNCHANGED dbvars

\* the join function is called in the loop of the merge: the call is logged
\* with the places of its records in their streams, and what it returns is
\* pushed on v
MergeCall(e, o1, o2) ==
    LET r == MergeJoin(e.op.join, o1, o2)
    IN  [e EXCEPT !.calls = Append(@, [m |-> IF o1.some THEN Len(e.op.first) - Len(e.it1) ELSE 0,
                                       n |-> IF o2.some THEN Len(e.op.second) - Len(e.it2) ELSE 0,
                                       first |-> o1, second |-> o2]),
                  !.v = IF r.some THEN Append(@, r.v) ELSE @]

\* orec1 = it1.next() and orec2 = it2.next()
Advance1(e) == [e EXCEPT !.orec1 = next(e.it1), !.it1 = IF @ = <<>> THEN <<>> ELSE Tail(@)]

Advance2(e) == [e EXCEPT !.orec2 = next(e.it2), !.it2 = IF @ = <<>> THEN <<>> ELSE Tail(@)]

\* a variant of MergeIteration that advances both sides on equal keys
MergeIterationAdvancingBoth(e) ==
    IF e.orec1.some /\ e.orec2.some
    THEN LET k1 == values_key(multiple(e.op.first_key, e.orec1.v))
             k2 == values_key(multiple(e.op.second_key, e.orec2.v))
         IN  IF LexLess(k1, k2) THEN Advance1(MergeCall(e, e.orec1, NoValue))
             ELSE IF LexLess(k2, k1) THEN Advance2(MergeCall(e, NoValue, e.orec2))
             ELSE Advance1(Advance2(MergeCall(e, e.orec1, e.orec2)))
    ELSE IF e.orec1.some THEN Advance1(MergeCall(e, e.orec1, NoValue))
    ELSE Advance2(MergeCall(e, NoValue, e.orec2))

\* a variant of MergeIteration that does not present a record of the first
\* side alone when the call before presented it with a record of the second
MergeIterationAloneIfUnmatched(e) ==
    LET matched == /\ e.calls # <<>>
                   /\ e.calls[Len(e.calls)].first = e.orec1
                   /\ e.calls[Len(e.calls)].second.some
        alone == IF matched THEN Advance1(e) ELSE Advance1(MergeCall(e, e.orec1, NoValue))
    IN  IF e.orec1.some /\ e.orec2.some
        THEN LET k1 == values_key(multiple(e.op.first_key, e.orec1.v))
                 k2 == values_key(multiple(e.op.second_key, e.orec2.v))
             IN  IF LexLess(k1, k2) THEN alone
                 ELSE IF LexLess(k2, k1) THEN Advance2(MergeCall(e, NoValue, e.orec2))
                 ELSE Advance2(MergeCall(e, e.orec1, e.orec2))
        ELSE IF e.orec1.some THEN alone
        ELSE Advance2(MergeCall(e, NoValue, e.orec2))

\* a variant of MergeIteration that advances the first side as well when the
\* second side ends on equal keys
MergeIterationLeavingFirst(e) ==
    IF e.orec1.some /\ e.orec2.some
    THEN LET k1 == values_key(multiple(e.op.first_key, e.orec1.v))
             k2 == values_key(multiple(e.op.second_key, e.orec2.v))
         IN  IF LexLess(k1, k2) THEN Advance1(MergeCall(e, e.orec1, NoValue))
             ELSE IF LexLess(k2, k1) THEN Advance2(MergeCall(e, NoValue, e.orec2))
             ELSE IF e.it2 = <<>> THEN Advance1(Advance2(MergeCall(e, e.orec1, e.orec2)))
             ELSE Advance2(MergeCall(e, e.orec1, e.orec2))
    ELSE IF e.orec1.some THEN Advance1(MergeCall(e, e.orec1, NoValue))
    ELSE Advance2(MergeCall(e, NoValue, e.orec2))

\* one iteration of the loop of the merge: the keys of the two heads are
\* compared as byte strings; on Less the first is joined alone and the first
\* side advances, on Greater the second is joined alone and the second side
\* advances, on Equal both are joined and the second side advances; when one
\* side has ended the head of the other is joined alone
MergeIteration(e) ==
    IF e.orec1.some /\ e.orec2.some
    THEN LET k1 == values_key(multiple(e.op.first_key, e.orec1.v))
             k2 == values_key(multiple(e.op.second_key, e.orec2.v))
         IN  IF LexLess(k1, k2) THEN Advance1(MergeCall(e, e.orec1, NoValue))
             ELSE IF LexLess(k2, k1) THEN Advance2(MergeCall(e, NoValue, e.orec2))
             ELSE Advance2(MergeCall(e, e.orec1, e.orec2))
    ELSE IF e.orec1.some THEN Advance1(MergeCall(e, e.orec1, NoValue))
    ELSE Advance2(MergeCall(e, NoValue, e.orec2))

\* the loop of the merge runs once more, or ends and v.into_iter() is returned
MergeStep ==
    /\ exec.pc = "merge"
    /\ exec' = IF exec.orec1.some \/ exec.orec2.some THEN MergeIteration(exec)
               ELSE [exec EXCEPT !.pc = "iter"]
    /\ UNCHANGED dbvars

\* the consumer asks the iterator over v for its next record
IterNext ==
    /\ exec.pc = "iter"
    /\ exec' = IF exec.v = <<>> THEN [exec EXCEPT !.pc = "done"]
               ELSE [exec EXCEPT !.v = Tail(@), !.out = Append(@, Head(exec.v))]
    /\ UNCHANGED dbvars

\* the scripts of a reduce: one that sets the value of rec to the number of
\* records, one that sets its key as well, one that does nothing, and one
\* whose evaluation fails
ReduceScripts ==
    {"rec.value=recs.len();", "rec.key=recs.len();rec.value=0;", "", "throw 1;"}

\* engine.eval_ast_with_scope on a script of a reduce, recs bound to the
\* records and rec to an empty record: whether it succeeded, and rec after it
EvalReduceScript(script, recs) ==
    CASE script = "rec.value=recs.len();" ->
            [ok |-> TRUE, rec |-> EQLRecord(Null, Num(Len(recs)))]
      [] script = "rec.key=recs.len();rec.value=0;" ->
            [ok |-> TRUE, rec |-> EQLRecord(Num(Len(recs)), Num(0))]
      [] script = "" -> [ok |-> TRUE, rec |-> EQLRecord(Null, Null)]
      [] OTHER -> [ok |-> FALSE, rec |-> EQLRecord(Null, Null)]

\* a variant of process_reduce that yields nothing when there is no record
process_reduce_of_some(script, it) ==
    LET r == EvalReduceScript(script, it)
    IN  IF r.ok THEN [ok |-> TRUE, v |-> IF it = <<>> THEN <<>> ELSE <<r.rec>>]
        ELSE [ok |-> FALSE, v |-> <<>>]

\* the process closure of a Reduce: all the records are collected into recs,
\* the script is evaluated once, and the iterator returned is once(rec); an
\* evaluation error is a ReduceError
process_reduce(script, it) ==
    LET r == EvalReduceScript(script, it)
    IN  IF r.ok THEN [ok |-> TRUE, v |-> <<r.rec>>] ELSE [ok |-> FALSE, v |-> <<>>]

\* execute(Operation::Process) of a Reduce: the closure is given the iterator
\* of the child; v holds what the iterator it returns has still to yield
StartReduce ==
    /\ exec.pc = "idle"
    /\ \E child \in Streams, script \in ReduceScripts :
        /\ LET r == process_reduce(script, child)
           IN  exec' = [Idle EXCEPT !.pc = IF r.ok THEN "iter" ELSE "done",
                                    !.v = r.v,
                                    !.err = IF r.ok THEN "none" ELSE "ReduceError",
                                    !.op = [kind |-> "Reduce", operation |-> child,
                                            process |-> script]]
        /\ UNCHANGED dbvars

\* sp: the first place from i on that holds no blank, tab or line end
RECURSIVE sp(_, _)
sp(b, i) ==
    IF i <= Len(b) /\ b[i] \in {32, 9, 13, 10} THEN sp(b, i + 1) ELSE i

\* spaced(txt) = preceded(sp, tag_no_case(txt)): the place after txt, which is
\* in lower case, when it stands at i after blanks; 0 when it does not
spaced(b, i, txt) ==
    LET j == sp(b, i)
        lower(c) == IF c \in 65..90 THEN c + 32 ELSE c
    IN  IF /\ j + Len(txt) - 1 <= Len(b)
           /\ \A x \in 1..Len(txt) : lower(b[j + x - 1]) = txt[x]
        THEN j + Len(txt) ELSE 0

\* parse_string after its opening quote: the characters up to the closing
\* quote, a backslash standing before a backslash, a quote or n (a line end)
RECURSIVE parse_string(_, _, _)
parse_string(b, i, acc) ==
    IF i > Len(b) THEN [ok |-> FALSE, s |-> <<>>, pos |-> i]
    ELSE IF b[i] = 34 THEN [ok |-> acc # <<>>, s |-> acc, pos |-> i + 1]
    ELSE IF b[i] = 92
    THEN IF i + 1 <= Len(b) /\ b[i + 1] \in {92, 34, 110}
         THEN parse_string(b, i + 2, Append(acc, IF b[i + 1] = 110 THEN 10 ELSE b[i + 1]))
         ELSE [ok |-> FALSE, s |-> <<>>, pos |-> i]
    ELSE parse_string(b, i + 1, Append(acc, b[i]))

\* parse_eql_string: "" or a quoted string, or else a name made of letters,
\* digits and underscores
parse_eql_string(b, i) ==
    LET alnum(c) == c \in (48..57) \cup (65..90) \cup (97..122) \cup {95}
        quoted == IF i + 1 <= Len(b) /\ b[i] = 34 /\ b[i + 1] = 34
                  THEN [ok |-> TRUE, s |-> <<>>, pos |-> i + 2]
                  ELSE IF i <= Len(b) /\ b[i] = 34 THEN parse_string(b, i + 1, <<>>)
                  ELSE [ok |-> FALSE, s |-> <<>>, pos |-> i]
        j == CHOOSE x \in i..(Len(b) + 1) :
                 /\ \A y \in i..(x - 1) : alnum(b[y])
                 /\ x = Len(b) + 1 \/ ~alnum(b[x])
    IN  IF quoted.ok THEN quoted
        ELSE IF i > Len(b) + 1 \/ j = i THEN [ok |-> FALSE, s |-> <<>>, pos |-> i]
        ELSE [ok |-> TRUE, s |-> SubSeq(b, i, j - 1), pos |-> j]

\* parse_record_extract: the alternatives key, value, pointer(..), script(..)
\* and [..] in this order; separated_list0 is the list of a Multiple: the
\* extracts separated by commas, ending before a comma no extract follows
RECURSIVE parse_record_extract(_, _), separated_list0(_, _, _, _)
parse_record_extract(b, i) ==
    LET fail == [ok |-> FALSE, e |-> [kind |-> "none"], pos |-> i]
        arg(txt) ==
            LET p1 == spaced(b, i, txt)
                p2 == IF p1 = 0 THEN 0 ELSE spaced(b, p1, <<40>>)
                s  == IF p2 = 0 THEN [ok |-> FALSE, s |-> <<>>, pos |-> i]
                      ELSE parse_eql_string(b, p2)
                p3 == IF s.ok THEN spaced(b, s.pos, <<41>>) ELSE 0
            IN  [ok |-> p3 # 0, s |-> s.s, pos |-> p3]
        key     == spaced(b, i, <<107, 101, 121>>)
        value   == spaced(b, i, <<118, 97, 108, 117, 101>>)
        pointer_ == arg(<<112, 111, 105, 110, 116, 101, 114>>)
        script  == arg(<<115, 99, 114, 105, 112, 116>>)
        open_   == spaced(b, i, <<91>>)
    IN  IF key # 0 THEN [ok |-> TRUE, e |-> [kind |-> "Key"], pos |-> key]
        ELSE IF value # 0 THEN [ok |-> TRUE, e |-> [kind |-> "Value"], pos |-> value]
        ELSE IF pointer_.ok
        THEN [ok |-> TRUE, e |-> [kind |-> "Pointer", s |-> pointer_.s], pos |-> pointer_.pos]
        ELSE IF script.ok
        THEN [ok |-> TRUE, e |-> [kind |-> "Pointer", s |-> script.s], pos |-> script.pos]
        ELSE IF open_ # 0
        THEN LET l == separated_list0(b, open_, <<>>, TRUE)
                 close == spaced(b, l.pos, <<93>>)
             IN  IF close # 0
                 THEN [ok |-> TRUE, e |-> [kind |-> "Multiple", v |-> l.v], pos |-> close]
                 ELSE fail
        ELSE fail

separated_list0(b, i, acc, first) ==
    LET c == sp(b, i)
        from == IF first THEN i
                ELSE IF c <= Len(b) /\ b[c] = 44 THEN c + 1 ELSE 0
        r == IF from = 0 THEN [ok |-> FALSE] ELSE parse_record_extract(b, from)
    IN  IF r.ok THEN separated_list0(b, r.pos, Append(acc, r.e), FALSE)
        ELSE [v |-> acc, pos |-> i]

\* the text of a scripted record extract: key, value, pointer("s"),
\* script("s") and [e1,e2,..]
RECURSIVE TextOf(_)
TextOf(e) ==
    CASE e.kind = "Key" -> <<107, 101, 121>>
      [] e.kind = "Value" -> <<118, 97, 108, 117, 101>>
      [] e.kind = "Pointer" -> <<112, 111, 105, 110, 116, 101, 114, 40, 34>> \o e.s \o <<34, 41>>
      [] e.kind = "Script" -> <<115, 99, 114, 105, 112, 116, 40, 34>> \o e.s \o <<34, 41>>
      [] e.kind = "Multiple" ->
            LET t[j \in 0..Len(e.v)] ==
                    IF j = 0 THEN <<>>
                    ELSE t[j - 1] \o (IF j > 1 THEN <<44>> ELSE <<>>) \o TextOf(e.v[j])
            IN  <<91>> \o t[Len(e.v)] \o <<93>>

\* the scripted record extracts whose text is parsed
ScriptedExtracts ==
    LET single == {[kind |-> "Key"], [kind |-> "Value"],
                   [kind |-> "Pointer", s |-> PathC], [kind |-> "Script", s |-> ScriptC]}
    IN  single \cup {[kind |-> "Multiple", v |-> <<>>]}
               \cup {[kind |-> "Multiple", v |-> <<a>>] : a \in single}
               \cup {[kind |-> "Multiple", v |-> <<a, c>>] : a \in single, c \in single}
               \cup {[kind |-> "Multiple", v |-> <<[kind |-> "Multiple", v |-> <<a>>]>>] :
                        a \in single}

\* the text of a record extract is parsed
ParseRecordExtract ==
    /\ exec.pc = "idle"
    /\ \E e \in ScriptedExtracts :
        /\ exec' = [Idle EXCEPT !.pc = "done",
                                !.op = [kind |-> "Parse", extract |-> e, input |-> TextOf(e),
                                        result |-> parse_record_extract(TextOf(e), 1)]]
        /\ UNCHANGED dbvars

\* the closures given to nested_loops, by what the operation they build for a
\* record yields: nothing, the record itself, the record and then the record
\* keyed 4, or the record itself only when its value is a mapping
second(f, rec) ==
    CASE f = "nothing" -> <<>>
      [] f = "itself" -> <<rec>>
      [] f = "two" -> <<rec, QRecList[4]>>
      [] f = "mappings" -> IF rec.value.tag = "obj" THEN <<rec>> ELSE <<>>

\* a variant of flat_map's next that keeps only the first record of each inner
\* stream
RECURSIVE flat_map_first_only(_)
flat_map_first_only(e) ==
    IF e.it2 # <<>>
    THEN [e EXCEPT !.out = Append(@, Head(e.it2)), !.it2 = <<>>]
    ELSE IF e.it1 = <<>> THEN [e EXCEPT !.pc = "done"]
    ELSE flat_map_first_only([e EXCEPT !.it1 = Tail(@),
                                       !.calls = Append(@, Head(e.it1)),
                                       !.it2 = second(e.op.second, Head(e.it1))])

\* flat_map's next: the next record of the inner stream at hand; when that is
\* exhausted the closure is called on the next record of first and its
\* operation executed, until a record comes or first is exhausted
RECURSIVE flat_map(_)
flat_map(e) ==
    IF e.it2 # <<>>
    THEN [e EXCEPT !.out = Append(@, Head(e.it2)), !.it2 = Tail(@)]
    ELSE IF e.it1 = <<>> THEN [e EXCEPT !.pc = "done"]
    ELSE flat_map([e EXCEPT !.it1 = Tail(@),
                            !.calls = Append(@, Head(e.it1)),
                            !.it2 = second(e.op.second, Head(e.it1))])

\* execute(Operation::NestedLoops)
StartNestedLoops ==
    /\ exec.pc = "idle"
    /\ \E first \in Streams, f \in {"nothing", "itself", "two", "mappings"} :
        /\ exec' = [Idle EXCEPT !.pc = "loops", !.it1 = first,
                                !.op = [kind |-> "NestedLoops", first |-> first,
                                        second |-> f]]
        /\ UNCHANGED dbvars

\* the consumer asks the nested loops for their next record
NestedNext ==
    /\ exec.pc = "loops"
    /\ exec' = flat_map(exec)
    /\ UNCHANGED dbvars

\* ------------------------------------------------------------------------
\* The textual surface: operations written as text
\* ------------------------------------------------------------------------

\* nom's double on a literal made of an optional sign, digits and an optional
\* point followed by zeros (the literals of the model have no other fraction
\* and no exponent): the f64 of that integer
double(b, i) ==
    LET signed == i <= Len(b) /\ b[i] \in {43, 45}
        j == IF signed THEN i + 1 ELSE i
        d == ParseDigits(b, j, 0)
        point == d.pos <= Len(b) /\ b[d.pos] = 46
        f == IF point THEN ParseDigits(b, d.pos + 1, 0) ELSE [n |-> 0, pos |-> d.pos]
    IN  IF d.pos = j \/ f.n # 0 THEN [ok |-> FALSE, v |-> Null, pos |-> i]
        ELSE [ok |-> TRUE, pos |-> f.pos,
              v |-> Float(IF signed /\ b[i] = 45 THEN 0 - d.n ELSE d.n)]

RECURSIVE json_value(_, _), json_list(_, _, _, _, _)

\* json_value: blanks, then the alternatives hash, array, string, double and
\* boolean in this order; after an opening brace or bracket the parse is cut
json_value(b, i) ==
    LET fail == [ok |-> FALSE, v |-> Null, pos |-> i]
        closing(c, ch, v) ==
            IF c <= Len(b) /\ b[c] = ch THEN [ok |-> TRUE, v |-> v, pos |-> c + 1]
            ELSE fail
        hash(l) == closing(sp(b, l.pos), 125, Obj(l.v))
        array(l) == closing(sp(b, l.pos), 93, Arr(l.v))
        string(r) == IF r.ok THEN [ok |-> TRUE, v |-> Str(r.s), pos |-> r.pos] ELSE fail
        boolean(j) ==
            IF HasLit(b, j, <<116, 114, 117, 101>>)
            THEN [ok |-> TRUE, v |-> Bool(TRUE), pos |-> j + 4]
            ELSE IF HasLit(b, j, <<102, 97, 108, 115, 101>>)
            THEN [ok |-> TRUE, v |-> Bool(FALSE), pos |-> j + 5]
            ELSE fail
        number(d, j) == IF d.ok THEN d ELSE boolean(j)
        alt(j) ==
            IF j > Len(b) THEN fail
            ELSE IF b[j] = 123 THEN hash(json_list(b, j + 1, Empty, TRUE, "key_value"))
            ELSE IF b[j] = 91 THEN array(json_list(b, j + 1, <<>>, TRUE, "json_value"))
            ELSE IF b[j] = 34
            THEN IF HasLit(b, j, <<34, 34>>)
                 THEN [ok |-> TRUE, v |-> Str(<<>>), pos |-> j + 2]
                 ELSE string(parse_string(b, j + 1, <<>>))
            ELSE number(double(b, j), j)
    IN  alt(sp(b, i))

\* separated_list0 with a comma after blanks as separator, over the elements
\* of an array (json_value), the members of a hash (key_value: a string, a
\* colon, a json_value; a repeated name keeps its last value) or the names of
\* a string_array (parse_eql_string after blanks)
json_list(b, i, acc, first, of) ==
    LET end == [v |-> acc, pos |-> i]
        element(r) ==
            IF r.ok THEN json_list(b, r.pos, Append(acc, r.v), FALSE, of) ELSE end
        name(r) ==
            IF r.ok THEN json_list(b, r.pos, Append(acc, r.s), FALSE, of) ELSE end
        member(k, r) ==
            IF r.ok THEN json_list(b, r.pos, MapPut(acc, k.v.s, r.v), FALSE, of) ELSE end
        value(colon) ==
            IF colon # 0 /\ colon <= Len(b) /\ b[colon] = 58
            THEN json_value(b, colon + 1) ELSE [ok |-> FALSE]
        key_value(k) ==
            member(k, value(IF k.ok /\ k.v.tag = "str" THEN sp(b, k.pos) ELSE 0))
        separator(c) ==
            IF first THEN i ELSE IF c <= Len(b) /\ b[c] = 44 THEN c + 1 ELSE 0
        item(from) ==
            IF from = 0 THEN end
            ELSE IF of = "json_value" THEN element(json_value(b, from))
            ELSE IF of = "key_value" THEN key_value(json_value(b, from))
            ELSE name(parse_eql_string(b, sp(b, from)))
    IN  item(separator(sp(b, i)))

\* parse_operation for the operations that carry no script: scan, key_lookup,
\* extract, augment and index_lookup; after the opening parenthesis of an
\* operation the parse is cut
RECURSIVE parse_operation(_, _)
parse_operation(b, i) ==
    LET fail == [ok |-> FALSE, op |-> [kind |-> "none"], pos |-> i]
        no == [ok |-> FALSE]
        parenthesis(p) == IF p = 0 THEN 0 ELSE spaced(b, p, <<40>>)
        opening(txt) == parenthesis(spaced(b, i, txt))
        comma(r) == IF r.ok THEN spaced(b, r.pos, <<44>>) ELSE 0
        closing(c, op) ==
            IF c <= Len(b) /\ b[c] = 41 THEN [ok |-> TRUE, op |-> op, pos |-> c + 1]
            ELSE fail
        close(p, op) == closing(sp(b, p), op)
        name_at(p) == IF p = 0 THEN no ELSE parse_eql_string(b, sp(b, p))
        value_at(p) == IF p = 0 THEN no ELSE json_value(b, p)
        operation_at(p) == IF p = 0 THEN no ELSE parse_operation(b, p)
        brackets(p, o, l, c) ==
            IF o <= Len(b) /\ b[o] = 91 /\ c <= Len(b) /\ b[c] = 93
            THEN [ok |-> TRUE, v |-> l.v, pos |-> c + 1]
            ELSE [ok |-> FALSE, v |-> <<>>, pos |-> p]
        listed(p, o, l) == brackets(p, o, l, sp(b, l.pos))
        opened(p, o) == listed(p, o, json_list(b, o + 1, <<>>, TRUE, "parse_eql_string"))
        string_array(p) == IF p = 0 THEN no ELSE opened(p, sp(b, p))
        scan(name) ==
            IF name.ok THEN close(name.pos, [kind |-> "Scan", name |-> name.s]) ELSE fail
        key_lookup_key(name, key) ==
            IF key.ok
            THEN close(key.pos, [kind |-> "KeyLookup", name |-> name.s, key |-> key.v])
            ELSE fail
        key_lookup(name) == key_lookup_key(name, value_at(comma(name)))
        extract_operation(names, operation) ==
            IF operation.ok
            THEN close(operation.pos, [kind |-> "Extract", names |-> Range(names.v),
                                       operation |-> operation.op])
            ELSE fail
        extract(names) == extract_operation(names, operation_at(comma(names)))
        augment_operation(value, operation) ==
            IF operation.ok
            THEN close(operation.pos, [kind |-> "Augment", value |-> value.v,
                                       operation |-> operation.op])
            ELSE fail
        augment(value) == augment_operation(value, operation_at(comma(value)))
        index_lookup_keys(name, index_name, values, keys) ==
            IF values.ok /\ values.v.tag = "arr"
            THEN close(IF keys.ok THEN keys.pos ELSE values.pos,
                       [kind |-> "IndexLookup", name |-> name.s,
                        index_name |-> index_name.s, values |-> values.v.o,
                        keys |-> IF keys.ok THEN keys.v ELSE <<>>])
            ELSE fail
        index_lookup_values(name, index_name, values) ==
            index_lookup_keys(name, index_name, values, string_array(comma(values)))
        index_lookup_index(name, index_name) ==
            index_lookup_values(name, index_name, value_at(comma(index_name)))
        index_lookup(name) == index_lookup_index(name, name_at(comma(name)))
        alt(s, k, e, a, x) ==
            IF s # 0 THEN scan(name_at(s))
            ELSE IF k # 0 THEN key_lookup(name_at(k))
            ELSE IF e # 0 THEN extract(string_array(e))
            ELSE IF a # 0 THEN augment(json_value(b, a))
            ELSE IF x # 0 THEN index_lookup(name_at(x))
            ELSE fail
    IN  alt(opening(<<115, 99, 97, 110>>),
            opening(<<107, 101, 121, 95, 108, 111, 111, 107, 117, 112>>),
            opening(<<101, 120, 116, 114, 97, 99, 116>>),
            opening(<<97, 117, 103, 109, 101, 110, 116>>),
            opening(<<105, 110, 100, 101, 120, 95, 108, 111, 111, 107, 117, 112>>))

\* ScriptedOperation::into_rust for the operations that carry no script: the
\* Operation of the same variant with the same fields, the child converted
RECURSIVE into_rust(_)
into_rust(sop) ==
    CASE sop.kind = "Scan" -> [kind |-> "Scan", name |-> sop.name]
      [] sop.kind = "KeyLookup" -> [kind |-> "KeyLookup", name |-> sop.name, key |-> sop.key]
      [] sop.kind = "Extract" -> [kind |-> "Extract", names |-> sop.names,
                                  operation |-> into_rust(sop.operation)]
      [] sop.kind = "Augment" -> [kind |-> "Augment", value |-> sop.value,
                                  operation |-> into_rust(sop.operation)]
      [] sop.kind = "IndexLookup" -> [kind |-> "IndexLookup", name |-> sop.name,
                                      index_name |-> sop.index_name,
                                      values |-> sop.values, keys |-> sop.keys]

\* execute for the operations that carry no closure: the whole stream
RECURSIVE execute(_, _)
execute(db, op) ==
    CASE op.kind = "Scan" -> Scan(db, op.name)
      [] op.kind = "KeyLookup" -> KeyLookup(db, op.name, op.key)
      [] op.kind = "IndexLookup" ->
            IndexLookup(db, op.name, op.index_name, op.values, op.keys)
      [] op.kind \in {"Extract", "Augment"} ->
            LET child == execute(db, op.operation)
            IN  [j \in 1..Len(child) |-> MapRecord(op, child[j])]

\* the text of an operation built by the constructors scan, key_lookup,
\* extract, augment, index_lookup and index_lookup_keys: names and values as
\* JSON literals
RECURSIVE OperationText(_)
OperationText(op) ==
    LET strings(q) == to_vec(Arr([j \in 1..Len(q) |-> Str(q[j])]))
    IN  CASE op.kind = "Scan" -> <<115, 99, 97, 110, 40>> \o EncStr(op.name) \o <<41>>
          [] op.kind = "KeyLookup" ->
                <<107, 101, 121, 95, 108, 111, 111, 107, 117, 112, 40>>
                \o EncStr(op.name) \o <<44>> \o to_vec(op.key) \o <<41>>
          [] op.kind = "Extract" ->
                <<101, 120, 116, 114, 97, 99, 116, 40>> \o strings(SortBytes(op.names))
                \o <<44>> \o OperationText(op.operation) \o <<41>>
          [] op.kind = "Augment" ->
                <<97, 117, 103, 109, 101, 110, 116, 40>> \o to_vec(op.value)
                \o <<44>> \o OperationText(op.operation) \o <<41>>
          [] op.kind = "IndexLookup" ->
                <<105, 110, 100, 101, 120, 95, 108, 111, 111, 107, 117, 112, 40>>
                \o EncStr(op.name) \o <<44>> \o EncStr(op.index_name) \o <<44>>
                \o to_vec(Arr(op.values))
                \o (IF op.keys = <<>> THEN <<>> ELSE <<44>> \o strings(op.keys))
                \o <<41>>

\* execute_script(text) on an operation that carries no script: the text is
\* parsed, the scripted operation converted and executed; ran is the stream of
\* the text, built the stream of the operation the constructors build
ExecuteScript ==
    /\ exec.pc = "idle"
    /\ \E op \in
          LET literals == Keys \cup {Null, Bool(TRUE), Bool(FALSE), Float(2), Str(NameC),
                                    Str(<<>>), Arr(<<>>), Arr(<<Str(NameC), Bool(FALSE)>>),
                                    Obj(Empty), Obj(NameC :> Str(NameD))}
              leaves == {[kind |-> "Scan", name |-> t] : t \in ReadTypes}
                        \cup {[kind |-> "KeyLookup", name |-> t, key |-> k] :
                                 t \in Types, k \in literals}
                        \cup {[kind |-> "IndexLookup", name |-> t, index_name |-> x,
                               values |-> q, keys |-> ks] :
                                 t \in Types, x \in IndexNames,
                                 q \in {<<>>, <<Str(NameC)>>, <<Bool(TRUE), Arr(<<>>)>>},
                                 ks \in {<<>>, <<NameC>>}}
              mapped(ops) ==
                  {[kind |-> "Extract", names |-> ns, operation |-> o] :
                      ns \in {{}, {<<110>>}}, o \in ops}
                  \cup {[kind |-> "Augment", value |-> v, operation |-> o] :
                           v \in {Obj(NameC :> Str(NameD))}, o \in ops}
              scans == {[kind |-> "Scan", name |-> t] : t \in Types}
          IN  leaves \cup mapped(scans) \cup mapped(mapped(scans)) :
        LET ran(script, r, ok, streams) ==
                [Idle EXCEPT !.pc = "done",
                             !.err = IF ok THEN "none" ELSE "ParseError",
                             !.out = IF ok THEN streams[1] ELSE <<>>,
                             !.op = [kind |-> "Script", operation |-> op,
                                     script |-> script, parsed |-> r.op,
                                     built |-> streams[2]]]
            both(script, r, ok) ==
                ran(script, r, ok,
                    [w \in (IF ok THEN {1} ELSE {}) \cup {2} |->
                        execute(DB, IF w = 1 THEN into_rust(r.op) ELSE op)])
            parsed(script, r) == both(script, r, r.ok /\ r.pos = Len(script) + 1)
            text(script) == parsed(script, parse_operation(script, 1))
        IN  /\ exec' = text(OperationText(op))
            /\ UNCHANGED dbvars

\* ------------------------------------------------------------------------
\* The names of the column families
\* ------------------------------------------------------------------------

\* the column families two indices and a record type get: index_cf_name of two
\* (record type, index name) pairs, and the column family batch_insert creates
\* for the first record of a type; the names are "a", "b" and "a_a", and the
\* record types these and "#idx_a_a"
NameNamespaces ==
    /\ exec.pc = "idle"
    /\ \E t1 \in {<<97>>, <<98>>, <<97, 95, 97>>}, i1 \in {<<97>>, <<98>>, <<97, 95, 97>>},
          t2 \in {<<97>>, <<98>>, <<97, 95, 97>>}, i2 \in {<<97>>, <<98>>, <<97, 95, 97>>},
          rec_type \in {<<97>>, <<98>>, <<97, 95, 97>>, <<35, 105, 100, 120, 95, 97, 95, 97>>} :
        LET r == batch_insert(DB, <<>>, rec_type, KeyList[1], Obj(Empty))
        IN  /\ exec' = [Idle EXCEPT !.pc = "done",
                                    !.op = [kind |-> "Namespaces",
                                            first |-> <<t1, i1>>, second |-> <<t2, i2>>,
                                            rec_type |-> rec_type,
                                            first_cf |-> index_cf_name(t1, i1),
                                            second_cf |-> index_cf_name(t2, i2),
                                            type_cfs |-> (DOMAIN r.cfs) \ (DOMAIN cfs)]]
            /\ UNCHANGED dbvars

\* the consumer drops the iterator it has exhausted
DropIterator ==
    /\ exec.pc = "done"
    /\ exec' = Idle
    /\ UNCHANGED dbvars

\* the executions of operations over given streams
NextQuery ==
    \/ StartExtract
    \/ StartAugment
    \/ StartHashLookup
    \/ StartMerge
    \/ StartReduce
    \/ StartNestedLoops
    \/ NestedNext
    \/ ParseRecordExtract
    \/ MapNext
    \/ MergeStep
    \/ IterNext
    \/ BuildNext
    \/ ProbeNext
    \/ DropIterator

SpecQuery == Init /\ [][NextQuery]_vars

\* column families are named on a database that holds nothing
NextNames ==
    \/ NameNamespaces
    \/ DropIterator

SpecNames == Init /\ [][NextNames]_vars

\* scripts executed on a database that inserts and add_index calls fill; the
\* iterator execute returns borrows the database, which insert and add_index
\* borrow mutably: they are called when no iterator is held
NextText ==
    \/ exec.pc = "idle" /\ \E t \in Types, k \in Keys, v \in RecValues : Insert(t, k, v)
    \/ exec.pc = "idle" /\ \E t \in Types, i \in IndexNames, on \in IndexDefs :
                               AddIndex(t, i, on)
    \/ ExecuteScript
    \/ DropIterator

SpecText == Init /\ [][NextText]_vars

\* ------------------------------------------------------------------------
\* What the properties speak of
\* ------------------------------------------------------------------------

\* the (type, index) pairs the catalog lists
CatalogIndexes ==
    UNION {{<<t, i>> : i \in DOMAIN metadata[t]} : t \in DOMAIN metadata}

\* the records stored under type t
Records(t) ==
    IF t \in DOMAIN cfs
    THEN {EQLRecord(from_slice(kb), from_slice(cfs[t][kb])) : kb \in DOMAIN cfs[t]}
    ELSE {}

\* the namespace of index i of type t: entry key -> entry value
IndexEntries(t, i) ==
    IF index_cf_name(t, i) \in DOMAIN cfs THEN cfs[index_cf_name(t, i)] ELSE Empty

\* enc(v at P), a path missing from v giving enc(null)
EncAt(v, P) == IF pointer(v, P).some THEN to_vec(pointer(v, P).v) ELSE to_vec(Null)

\* the concatenation of the byte strings of a sequence
RECURSIVE Concat(_)
Concat(bs) == IF bs = <<>> THEN <<>> ELSE Head(bs) \o Concat(Tail(bs))

\* enc(v at P1) 0x00 ... enc(v at Pn) 0x00 enc(k)
EntryKey(P, k, v) ==
    Concat([j \in 1..Len(P) |-> EncAt(v, P[j]) \o <<0>>]) \o to_vec(k)

\* the entries of index i of type t that belong to record key k
EntriesOfKey(t, i, k) ==
    {e \in DOMAIN IndexEntries(t, i) : IndexEntries(t, i)[e] = to_vec(k)}

\* what get, scan and index_lookup return on database db
Reads(db) ==
    [get    |-> [t \in ReadTypes |-> [k \in Keys |-> get(db, t, k)]],
     scan   |-> [t \in ReadTypes |-> Scan(db, t)],
     lookup |-> [t \in Types |-> [i \in IndexNames |-> [values \in SomeLookupLists |->
                    IndexLookup(db, t, i, values, <<<<97>>, <<98>>>>)]]]]

\* the database as write(batch) would leave it now
Pending == [DB EXCEPT !.cfs = db_write(cfs, batch.ops)]

\* the places of sequence q where x stands
Places(q, x) == {j \in 1..Len(q) : q[j] = x}

\* the first m components of index entry key e are the encodings of cs
StartsWithComponents(e, cs) ==
    /\ Len(Split(e, 0)) > Len(cs)
    /\ \A j \in 1..Len(cs) : Split(e, 0)[j] = to_vec(cs[j])

\* ------------------------------------------------------------------------
\* Properties
\* ------------------------------------------------------------------------

\* C1: after any sequence of completed calls, for every stored record (t,k,v)
\* and every index i the catalog lists for t with paths P, the namespace of i
\* holds exactly one entry for k: its key is enc(v at P1) 0 ... enc(v at Pn) 0
\* enc(k), a missing path giving enc(null), and its value is enc(k).
C1_OneEntryPerRecordAndIndex ==
    \A ti \in CatalogIndexes : \A r \in Records(ti[1]) :
        EntriesOfKey(ti[1], ti[2], r.key)
            = {EntryKey(metadata[ti[1]][ti[2]], r.key, r.value)}

\* the state that breaks C1: a record was inserted over another value of its
\* key, and the index holds two entries for the key
C1_TwoEntriesForOneKey ==
    \E ti \in CatalogIndexes : \E r \in Records(ti[1]) :
        Cardinality(EntriesOfKey(ti[1], ti[2], r.key)) = 2

\* C2: after any sequence of completed mutations, every entry of every index
\* namespace is backed by a record that exists now and is the entry computed
\* from that record's current value (no entry of a previous value is left).
C2_EveryEntryBackedByCurrentRecord ==
    \A ti \in CatalogIndexes : \A e \in DOMAIN IndexEntries(ti[1], ti[2]) :
        \E r \in Records(ti[1]) :
            /\ IndexEntries(ti[1], ti[2])[e] = to_vec(r.key)
            /\ e = EntryKey(metadata[ti[1]][ti[2]], r.key, r.value)

\* the state that breaks C2: insert(t,k,v1) then insert(t,k,v2), the values
\* differing at an indexed path, and the entry computed from v1 is still there
C2_StaleEntryAfterOverwrite ==
    /\ last.op = "insert" /\ prev.op = "insert" /\ prev.value # last.value
    /\ \E ti \in CatalogIndexes :
           LET e1 == EntryKey(metadata[ti[1]][ti[2]], prev.key, prev.value)
           IN  /\ ti[1] = last.rec_type
               /\ e1 # EntryKey(metadata[ti[1]][ti[2]], last.key, last.value)
               /\ e1 \in DOMAIN IndexEntries(ti[1], ti[2])

\* C3: when add_index(T,N,P) returns successfully on a type that holds n
\* records (n >= 0, also below the flush threshold), the namespace of N holds
\* exactly one entry for each of these records.
C3_AddIndexBackFills ==
    (last.op = "add_index" /\ last.ok) =>
        \A r \in Records(last.rec_type) :
            Cardinality(EntriesOfKey(last.rec_type, last.idx_name, r.key)) = 1

\* the state that breaks C3: add_index returned Ok on a type that holds
\* records, and the namespace of the index is empty
C3_IndexEmptyAfterAddIndex ==
    /\ last.op = "add_index" /\ last.ok
    /\ Records(last.rec_type) # {}
    /\ index_cf_name(last.rec_type, last.idx_name) \in DOMAIN cfs
    /\ IndexEntries(last.rec_type, last.idx_name) = Empty

\* C4: get(t,k) right after insert(t,k,v) returns exactly v, and get(t,k) after
\* insert(t,k,v) followed by delete(t,k) returns absent, also when the database
\* was closed and opened again in between.
C4_GetAfterInsertAndDelete ==
    /\ last.op = "insert" =>
           get(DB, last.rec_type, last.key) = Some(last.value)
    /\ (/\ last.op = "delete" /\ prev.op = "insert"
        /\ prev.rec_type = last.rec_type /\ prev.key = last.key) =>
           get(DB, last.rec_type, last.key) = NoValue

\* the case of C4: the record was inserted and deleted, the database opened
\* again, and the record is absent
C4_Witness ==
    /\ last.op = "delete" /\ prev.op = "insert"
    /\ prev.rec_type = last.rec_type /\ prev.key = last.key
    /\ reopened
    /\ get(DB, last.rec_type, last.key) = NoValue

\* C5: keys are unique within a type: scan(t) yields at most one record per
\* key, and get(t,k) returns the value of the last insert of k that no delete
\* followed.
C5_KeysUniqueLastInsertWins ==
    \A t \in Types, k \in Keys :
        /\ get(DB, t, k) = stored[t][k]
        /\ Cardinality({j \in 1..Len(Scan(DB, t)) : Scan(DB, t)[j].key = k}) <= 1

\* the case of C5: a key was inserted twice with different values, and another
\* key is stored beside it
C5_Witness ==
    /\ last.op = "insert" /\ prev.op = "insert"
    /\ prev.rec_type = last.rec_type /\ prev.key = last.key
    /\ prev.value # last.value
    /\ Len(Scan(DB, last.rec_type)) = 2

\* C6: scan(t) yields every record stored under t exactly once, in the
\* byte-lexicographic order of the encoded keys, whatever the order of the
\* inserts.
C6_ScanCompleteAndOrdered ==
    \A t \in Types :
        LET out == Scan(DB, t) IN
        /\ \A k \in Keys :
               IF stored[t][k].some
               THEN Cardinality(Places(out, EQLRecord(k, stored[t][k].v))) = 1
               ELSE \A j \in 1..Len(out) : out[j].key # k
        /\ Len(out) = Cardinality({k \in Keys : stored[t][k].some})
        /\ \A j \in 1..(Len(out) - 1) :
               LexLess(to_vec(out[j].key), to_vec(out[j + 1].key))

\* the case of C6: key 2 was inserted before key 10 and the scan yields 10
\* first
C6_Witness ==
    /\ last.op = "insert" /\ last.key = Num(10)
    /\ stored[last.rec_type][Num(2)].some
    /\ Len(Scan(DB, last.rec_type)) = 2
    /\ Scan(DB, last.rec_type)[1].key = Num(10)

\* C7: for every type t with an index idx, after any sequence of completed
\* mutations, index_lookup(t, idx, []) yields every record of t exactly once:
\* one output record per stored key, none missing and none repeated.
C7_FullLookupYieldsEachRecordOnce ==
    \A ti \in CatalogIndexes :
        LET out == IndexLookup(DB, ti[1], ti[2], <<>>, <<>>) IN
        /\ \A r \in Records(ti[1]) :
               Cardinality({j \in 1..Len(out) : out[j].key = r.key}) = 1
        /\ Len(out) = Cardinality(Records(ti[1]))

\* a state that breaks C7: the lookup of all the entries yields one key twice
C7_KeyYieldedTwice ==
    \E ti \in CatalogIndexes :
        LET out == IndexLookup(DB, ti[1], ti[2], <<>>, <<>>) IN
        \E j1, j2 \in 1..Len(out) : j1 < j2 /\ out[j1].key = out[j2].key

\* C8: index_lookup(t, idx, [c1..cm]) with 1 <= m <= n values that are not
\* null yields exactly the index entries whose first m components are
\* byte-equal to enc(c1)..enc(cm), in the byte order of the index; an entry
\* whose m-th component only starts with enc(cm) is not returned.
C8_PrefixLookupMatchesComponents ==
    \A ti \in CatalogIndexes : \A values \in LookupLists :
        (/\ Len(values) >= 1
         /\ Len(values) <= Len(metadata[ti[1]][ti[2]])
         /\ \A j \in 1..Len(values) : values[j] # Null) =>
            LET ix == IndexEntries(ti[1], ti[2])
                es == SortBytes({e \in DOMAIN ix : StartsWithComponents(e, values)})
            IN  IndexLookup(DB, ti[1], ti[2], values, <<>>)
                    = [j \in 1..Len(es) |->
                          EQLRecord(from_slice(ix[es[j]]), Obj(Empty))]

\* the case of C8: the index holds an entry with component 1 and one with
\* component 10, and the lookup of 1 returns the first and not the second
C8_Witness ==
    \E ti \in CatalogIndexes :
        /\ \E e \in DOMAIN IndexEntries(ti[1], ti[2]) :
               Split(e, 0)[1] = to_vec(Num(10))
        /\ Len(IndexLookup(DB, ti[1], ti[2], <<Num(1)>>, <<>>)) = 1
        /\ Len(IndexLookup(DB, ti[1], ti[2], <<Num(1), Num(2)>>, <<>>)) = 1

\* C9: a Null at position j of the values of an index lookup means that all
\* values are considered at that level: the lookup returns every entry that
\* matches the values that are not null at the other given positions, whatever
\* its j-th component is.
C9_NullIsWildcard ==
    \A ti \in CatalogIndexes : \A values \in LookupLists :
        (/\ Len(values) <= Len(metadata[ti[1]][ti[2]])
         /\ \E j \in 1..Len(values) : values[j] = Null) =>
            LET ix == IndexEntries(ti[1], ti[2])
                es == SortBytes({e \in DOMAIN ix :
                          \A j \in 1..Len(values) :
                              values[j] # Null => Split(e, 0)[j] = to_vec(values[j])})
            IN  IndexLookup(DB, ti[1], ti[2], values, <<>>)
                    = [j \in 1..Len(es) |->
                          EQLRecord(from_slice(ix[es[j]]), Obj(Empty))]

\* the state that breaks C9: the index holds an entry whose second component
\* is enc(2), and the lookup of [null, 2] yields nothing
C9_NullMatchesNothing ==
    \E ti \in CatalogIndexes :
        /\ Len(metadata[ti[1]][ti[2]]) = 2
        /\ \E e \in DOMAIN IndexEntries(ti[1], ti[2]) :
               Split(e, 0)[2] = to_vec(Num(2))
        /\ IndexLookup(DB, ti[1], ti[2], <<Null, Num(2)>>, <<>>) = <<>>

\* C10: every record index_lookup_keys(t, idx, values, out_keys) emits has as
\* key the record key stored in the value of an index entry, and as value a
\* mapping that binds the i-th name of out_keys to the decoded i-th component
\* of the key of that entry, a position whose name is empty being left out (of
\* two positions with one name the later one binds it); nothing of it is read
\* from the record.
C10_LookupOutputBuiltFromEntry ==
    \A ti \in CatalogIndexes : \A values \in SomeLookupLists, keys \in OutKeyLists :
        LET ix  == IndexEntries(ti[1], ti[2])
            es  == LookupIter(ix, values)
            out == IndexLookup(DB, ti[1], ti[2], values, keys)
        IN  /\ Len(out) = Len(es)
            /\ \A j \in 1..Len(out) :
                   LET rec   == out[j]
                       parts == Split(es[j], 0)
                       named == {p \in 1..Len(keys) : p <= Len(parts) /\ keys[p] # <<>>}
                   IN  /\ rec.key = from_slice(ix[es[j]])
                       /\ rec.value.tag = "obj"
                       /\ DOMAIN rec.value.o = {keys[p] : p \in named}
                       /\ \A p \in named :
                              (\A q \in named : keys[q] = keys[p] => q <= p) =>
                                  rec.value.o[keys[p]] = from_slice(parts[p])

\* the case of C10: a lookup with the names "", "b" emits a record whose value
\* binds b alone, to a component that the record stored under the emitted key
\* does not have (the entry is one of a previous value of the record)
C10_Witness ==
    \E ti \in CatalogIndexes :
        LET out == IndexLookup(DB, ti[1], ti[2], <<>>, <<<<>>, <<98>>>>) IN
        \E j \in 1..Len(out) :
            /\ DOMAIN out[j].value.o = {<<98>>}
            /\ out[j].value.o[<<98>>] = Num(2)
            /\ get(DB, ti[1], out[j].key).some
            /\ ~pointer(get(DB, ti[1], out[j].key).v, PathG).some

\* C11: add_index(T,N,P) when the catalog already lists an index N for T fails
\* with DuplicateIndex and changes nothing: the catalog in memory, the catalog
\* file, the set of namespaces and all the index entries stay as they were.
C11_DuplicateIndexChangesNothing ==
    [][\A t \in Types, i \in IndexNames, on \in IndexDefs :
          (/\ t \in DOMAIN metadata /\ i \in DOMAIN metadata[t]
           /\ AddIndex(t, i, on)) =>
              /\ add_index(DB, t, i, on).err = "DuplicateIndex"
              /\ ~last'.ok
              /\ UNCHANGED <<cfs, metadata, metafile>>]_vars

\* the case of C11: add_index was refused for an index that holds entries and
\* was asked with other paths than the index has
C11_Witness ==
    /\ last.op = "add_index" /\ ~last.ok
    /\ last.rec_type \in DOMAIN metadata
    /\ last.idx_name \in DOMAIN metadata[last.rec_type]
    /\ metadata[last.rec_type][last.idx_name] # last.on
    /\ IndexEntries(last.rec_type, last.idx_name) # Empty

\* C12: delete_index(T,N) when N is not an index of T, whether the catalog
\* knows T or not, returns success and leaves catalog and storage unchanged;
\* when N is an index of T it removes N from the catalog, drops its namespace
\* and persists the catalog.
C12_DeleteIndexNoOpWhenAbsent ==
    [][\A t \in Types, i \in IndexNames :
          DeleteIndex(t, i) =>
              IF t \in DOMAIN metadata /\ i \in DOMAIN metadata[t]
              THEN /\ last'.ok
                   /\ i \notin DOMAIN metadata'[t]
                   /\ index_cf_name(t, i) \notin DOMAIN cfs'
                   /\ metafile' = save_metadata(metadata')
              ELSE /\ last'.ok
                   /\ UNCHANGED <<cfs, metadata, metafile>>]_vars

\* the state that breaks C12: delete_index returned an error for a type the
\* catalog knows, and the catalog lists no index for the type
C12_DeleteIndexFailed ==
    /\ last.op = "delete_index" /\ ~last.ok
    /\ last.rec_type \in DOMAIN metadata
    /\ DOMAIN metadata[last.rec_type] = {}

\* C13: delete(t,k) when no record is stored under k in t, also when t is
\* unknown, returns success and changes nothing: the records of every type,
\* every index entry and the catalog stay as they were.
C13_DeleteOfAbsentRecordChangesNothing ==
    [][\A t \in Types, k \in Keys :
          (Delete(t, k) /\ get(DB, t, k) = NoValue) =>
              /\ last'.ok
              /\ UNCHANGED <<cfs, metadata, metafile>>]_vars

\* the case of C13: a delete was made on a type that has no namespace while
\* the catalog lists an index for it
C13_Witness ==
    /\ last.op = "delete" /\ last.ok
    /\ last.rec_type \notin DOMAIN cfs
    /\ \E ti \in CatalogIndexes : ti[1] = last.rec_type

\* C14: delete(t,k) on a stored record, in a state where each index of t holds
\* for k exactly the entry computed from the record's current value, removes
\* the record and that entry from every index of t and leaves every other
\* record and entry as it was; afterwards no index lookup on t yields key k.
C14_DeleteRemovesRecordAndEntries ==
    [][\A t \in Types, k \in Keys :
          LET old == get(DB, t, k)
              idxs == IF t \in DOMAIN metadata THEN metadata[t] ELSE Empty
              entry(i) == EntryKey(idxs[i], k, old.v)
          IN  (/\ Delete(t, k)
               /\ old.some
               /\ \A i \in DOMAIN idxs : EntriesOfKey(t, i, k) = {entry(i)}) =>
                  /\ last'.ok
                  /\ get(DB', t, k) = NoValue
                  /\ DOMAIN cfs' = DOMAIN cfs
                  /\ \A n \in DOMAIN cfs :
                         cfs'[n] =
                             IF n = t THEN MapRemove(cfs[t], to_vec(k))
                             ELSE IF \E i \in DOMAIN idxs : n = index_cf_name(t, i)
                             THEN MapRemove(cfs[n],
                                      entry(CHOOSE i \in DOMAIN idxs :
                                                n = index_cf_name(t, i)))
                             ELSE cfs[n]
                  /\ UNCHANGED <<metadata, metafile>>
                  /\ \A i \in DOMAIN idxs :
                         /\ EntriesOfKey(t, i, k)' = {}
                         /\ \A values \in SomeLookupLists :
                                LET out == IndexLookup(DB', t, i, values, <<>>) IN
                                \A j \in 1..Len(out) : out[j].key # k]_vars

\* the case of C14: a record was inserted under an index and deleted right
\* after, the index holds no entry for its key and still holds the entry of
\* another record
C14_Witness ==
    /\ last.op = "delete" /\ prev.op = "insert"
    /\ \E ti \in CatalogIndexes :
           /\ ti[1] = last.rec_type
           /\ EntriesOfKey(ti[1], ti[2], last.key) = {}
           /\ IndexEntries(ti[1], ti[2]) # Empty
    /\ Records(last.rec_type) # {}

\* C15: read operators on unknown names yield no record and no error: scan
\* and key_lookup on a type that has no namespace, and index_lookup on an index
\* that has none, also when the type exists and has records.
C15_UnknownNamesYieldNothing ==
    /\ \A t \in ReadTypes :
           t \notin DOMAIN cfs =>
               /\ Scan(DB, t) = <<>>
               /\ \A k \in Keys : KeyLookup(DB, t, k) = <<>>
    /\ \A t \in ReadTypes, i \in ReadIndexNames :
           index_cf_name(t, i) \notin DOMAIN cfs =>
               \A values \in LookupLists, keys \in OutKeyLists :
                   IndexLookup(DB, t, i, values, keys) = <<>>

\* the case of C15: the type holds two records, none of the read indexes has a
\* namespace, and the lookups on them and the scan of "u" yield nothing
C15_Witness ==
    \E t \in Types :
        /\ Len(Scan(DB, t)) = 2
        /\ \A i \in ReadIndexNames :
               /\ index_cf_name(t, i) \notin DOMAIN cfs
               /\ IndexLookup(DB, t, i, <<>>, <<>>) = <<>>
               /\ IndexLookup(DB, t, i, <<Num(1)>>, <<<<97>>>>) = <<>>
        /\ Scan(DB, <<117>>) = <<>>
        /\ KeyLookup(DB, <<117>>, Num(2)) = <<>>

\* C16: the puts and deletes that batch_insert and batch_delete accumulate are
\* invisible to get, scan and index_lookup until write(batch): a batch_* call
\* leaves what the reads return as it was, and write applies all the
\* operations of the batch at once, after which the records are those that
\* the accumulated inserts and deletes leave when made in their order.
C16_BatchInvisibleUntilWrite ==
    [][/\ ((\E t \in Types, k \in Keys, v \in RecValues : BatchInsert(t, k, v))
           \/ (\E t \in Types, k \in Keys : BatchDelete(t, k))) =>
              Reads(DB') = Reads(DB)
       /\ Write =>
              /\ cfs' = db_write(cfs, batch.ops)
              /\ \A t \in Types, k \in Keys :
                     get(DB', t, k) = Commit(stored, batch.calls)[t][k]]_vars

\* the case of C16: a batch holds the insert of a key and the delete of
\* another, neither written yet; get finds the second key and not the first
C16_Witness ==
    /\ Len(batch.calls) = 2
    /\ \E a, b \in 1..2 :
           /\ batch.calls[a].op = "insert" /\ batch.calls[b].op = "delete"
           /\ batch.calls[a].key # batch.calls[b].key
           /\ get(DB, batch.calls[a].rec_type, batch.calls[a].key) = NoValue
           /\ get(DB, batch.calls[b].rec_type, batch.calls[b].key).some
           /\ \E ti \in CatalogIndexes :
                  /\ ti[1] = batch.calls[b].rec_type
                  /\ Len(IndexLookup(DB, ti[1], ti[2], <<>>, <<>>)) = 1

\* C17: the batch variants have the semantics of the single calls: after each
\* batch_insert or batch_delete, what write(batch) would leave is what the
\* single insert or delete leaves when made on what write(batch) would have
\* left before the call, records and index entries alike; so a written batch
\* leaves what its calls leave when made one after the other.
C17_BatchRefinesSingleCalls ==
    [][/\ \A t \in Types, k \in Keys, v \in RecValues :
              BatchInsert(t, k, v) => Pending'.cfs = insert(Pending, t, k, v).cfs
       /\ \A t \in Types, k \in Keys :
              BatchDelete(t, k) => Pending'.cfs = delete(Pending, t, k).cfs]_vars

\* the case of C17: batch_insert(t, k, v) then batch_delete(t, k) in one batch
\* on an indexed type, k not stored before; write(batch) would leave no record
\* of k and an index entry of k
C17_OrphanEntryOfBatch ==
    /\ Len(batch.calls) = 2
    /\ batch.calls[1].op = "insert" /\ batch.calls[2].op = "delete"
    /\ batch.calls[1].rec_type = batch.calls[2].rec_type
    /\ batch.calls[1].key = batch.calls[2].key
    /\ LET t == batch.calls[1].rec_type
           k == batch.calls[1].key
       IN  /\ get(DB, t, k) = NoValue
           /\ get(Pending, t, k) = NoValue
           /\ \E ti \in CatalogIndexes :
                  /\ ti[1] = t
                  /\ EntriesOfKey(t, ti[2], k) = {}
                  /\ \E e \in DOMAIN Pending.cfs[index_cf_name(t, ti[2])] :
                         Pending.cfs[index_cf_name(t, ti[2])][e] = to_vec(k)

\* C18: the catalog survives close and re-open: after every call, add_index,
\* delete_index and the first insert of a type among them, open succeeds and
\* loads from metadata.json the catalog the handle held; a re-open leaves the
\* catalog as it was.
C18_CatalogSurvivesReopen ==
    [][LET r == open(DB')
       IN  /\ r.ok
           /\ r.db.metadata = metadata'
           /\ Reopen => metadata' = metadata]_vars

\* the case of C18: the database was re-opened after an add_index that
\* succeeded, and the catalog holds the index with its paths
C18_Witness ==
    /\ reopened
    /\ last.op = "add_index" /\ last.ok
    /\ last.rec_type \in DOMAIN metadata
    /\ last.idx_name \in DOMAIN metadata[last.rec_type]
    /\ metadata[last.rec_type][last.idx_name] = last.on
    /\ Len(last.on) = 2

\* C19: the first insert under a type the catalog does not know registers the
\* type with an empty set of indices and saves the catalog to metadata.json; an
\* insert under a type the catalog knows leaves the catalog and its file as
\* they were.
C19_FirstInsertRegistersType ==
    [][\A t \in Types, k \in Keys, v \in RecValues :
          Insert(t, k, v) =>
              IF t \in DOMAIN metadata
              THEN UNCHANGED <<metadata, metafile>>
              ELSE /\ metadata' = MapPut(metadata, t, Empty)
                   /\ metafile' = save_metadata(metadata')
                   /\ open(DB').db.metadata = metadata']_vars

\* the case of C19: an insert was the first call under its type, the catalog
\* lists the type with no index and metadata.json exists
C19_Witness ==
    /\ last.op = "insert"
    /\ metafile.exists
    /\ last.rec_type \in DOMAIN metadata /\ metadata[last.rec_type] = Empty
    /\ Cardinality(Records(last.rec_type)) = 1
    /\ \A i \in IndexNames : index_cf_name(last.rec_type, i) \notin DOMAIN cfs
    /\ \A k \in Keys : k # last.key => ~stored[last.rec_type][k].some

\* C20: after any sequence of completed calls the catalog agrees with the
\* storage engine: the column families that exist are the record types of the
\* catalog and the index column family of every (type, index) pair of the
\* catalog, no more and no fewer.
C20_CatalogAgreesWithColumnFamilies ==
    DOMAIN cfs = OpenCfNames(metadata)

\* the case of C20: add_index succeeded on a type that never received an
\* insert; the catalog lists the type, the column family of the index exists
\* and the column family of the type does not
C20_TypeWithoutColumnFamily ==
    /\ last.op = "add_index" /\ last.ok
    /\ ~reopened
    /\ last.rec_type \in DOMAIN metadata
    /\ last.idx_name \in DOMAIN metadata[last.rec_type]
    /\ index_cf_name(last.rec_type, last.idx_name) \in DOMAIN cfs
    /\ last.rec_type \notin DOMAIN cfs
    /\ \A k \in Keys : ~stored[last.rec_type][k].some

\* C21: extract(names, child) emits one record per record of child, in the
\* order of child and with the key of the record; of a value that is a mapping
\* the output holds exactly the members whose name is in names, with their
\* values, and no member for a name the input lacks; a value that is not a
\* mapping passes through unchanged.
C21_ExtractKeepsListedMembers ==
    exec.op.kind = "Extract" =>
        LET child == exec.op.operation
            names == exec.op.names
            n     == Len(exec.out)
        IN  /\ n + Len(exec.it1) = Len(child)
            /\ exec.pc = "done" => n = Len(child)
            /\ \A j \in 1..n :
                   LET rin == child[j]
                       rout == exec.out[j]
                   IN  /\ rout.key = rin.key
                       /\ IF rin.value.tag = "obj"
                          THEN /\ rout.value.tag = "obj"
                               /\ DOMAIN rout.value.o = names \cap DOMAIN rin.value.o
                               /\ \A f \in DOMAIN rout.value.o :
                                      rout.value.o[f] = rin.value.o[f]
                          ELSE rout.value = rin.value

\* the case of C21: an extract of "c" and "e" has run to its end over a record
\* with the members c and d and a record whose value is a number
C21_Witness ==
    /\ exec.pc = "done" /\ exec.op.kind = "Extract"
    /\ exec.op.names = {NameC, <<101>>}
    /\ exec.op.operation = <<QRecList[3], QRecList[4]>>
    /\ exec.out = <<EQLRecord(Num(3), Obj(NameC :> Num(1))), QRecList[4]>>

\* C22: augment(value, child) emits one record per record of child, in the
\* order of child and with the key of the record; when the given value and the
\* value of the record are both mappings the output is the mapping of the
\* record plus the members of the given mapping whose name the record lacks,
\* the members of the record keeping their value; otherwise the value of the
\* record is unchanged.
C22_AugmentAddsMissingMembers ==
    exec.op.kind = "Augment" =>
        LET child == exec.op.operation
            given == exec.op.value
            n     == Len(exec.out)
        IN  /\ n + Len(exec.it1) = Len(child)
            /\ exec.pc = "done" => n = Len(child)
            /\ \A j \in 1..n :
                   LET rin == child[j]
                       rout == exec.out[j]
                   IN  /\ rout.key = rin.key
                       /\ IF given.tag = "obj" /\ rin.value.tag = "obj"
                          THEN /\ rout.value.tag = "obj"
                               /\ DOMAIN rout.value.o =
                                      (DOMAIN rin.value.o) \cup (DOMAIN given.o)
                               /\ \A f \in DOMAIN rout.value.o :
                                      rout.value.o[f] =
                                          IF f \in DOMAIN rin.value.o
                                          THEN rin.value.o[f] ELSE given.o[f]
                          ELSE rout.value = rin.value

\* the case of C22: {"c":9,"e":7} was merged into a record that has c and d,
\* and into a record whose value is a number
C22_Witness ==
    /\ exec.pc = "done" /\ exec.op.kind = "Augment"
    /\ exec.op.value = Obj((NameC :> Num(9)) @@ (<<101>> :> Num(7)))
    /\ exec.op.operation = <<QRecList[3], QRecList[4]>>
    /\ exec.out = <<EQLRecord(Num(3), Obj((NameC :> Num(1)) @@ (NameD :> Num(2))
                                          @@ (<<101>> :> Num(7)))),
                    QRecList[4]>>

\* C23: in a hash join every probe record for which probe_hash yields a value
\* causes exactly one call of the join function, with Some(build record) when
\* the build map holds the key and with None otherwise; a probe record for
\* which probe_hash yields nothing causes no call; the calls follow the order
\* of the probe side and the output is what the calls returned, in their
\* order, at most one record per probe record; no call is made while the
\* build side is collected.
C23_OneJoinCallPerKeyedProbeRecord ==
    exec.op.kind = "HashLookup" =>
        LET op    == exec.op
            read  == Len(op.probe) - Len(exec.it2)
            calls == exec.calls
            res   == [i \in 1..Len(calls) |->
                         HashJoin(op.join, calls[i].first, calls[i].second.v)]
            kept  == {i \in 1..Len(calls) : res[i].some}
        IN  /\ exec.pc = "build" => calls = <<>> /\ exec.out = <<>> /\ read = 0
            /\ exec.pc = "done" => read = Len(op.probe)
            /\ \A j \in 1..read :
                   LET h  == apply(op.probe_hash, op.probe[j])
                       cs == {i \in 1..Len(calls) : calls[i].n = j}
                   IN  IF ~h.some THEN cs = {}
                       ELSE /\ Cardinality(cs) = 1
                            /\ \A i \in cs :
                                   /\ calls[i].second = Some(op.probe[j])
                                   /\ calls[i].first =
                                          IF format(h.v) \in DOMAIN exec.map
                                          THEN Some(exec.map[format(h.v)]) ELSE NoValue
            /\ \A i \in 1..Len(calls) :
                   /\ calls[i].n \in 1..read
                   /\ i > 1 => calls[i - 1].n < calls[i].n
            /\ Len(exec.out) = Cardinality(kept)
            /\ \A i \in kept :
                   exec.out[Cardinality({x \in kept : x <= i})] = res[i].v

\* the case of C23: a hash join on the member c has run to its end; its first
\* probe record has no member c and caused no call, its second was joined
\* with the build record
C23_Witness ==
    /\ exec.pc = "done" /\ exec.op.kind = "HashLookup"
    /\ exec.op.probe_hash = ExtractPointerC /\ exec.op.build_hash = ExtractPointerC
    /\ exec.op.build = <<QRecList[1]>>
    /\ exec.op.probe = <<QRecList[4], QRecList[3]>>
    /\ exec.calls = <<[n |-> 2, first |-> Some(QRecList[1]), second |-> Some(QRecList[3])]>>
    /\ exec.out = <<QRecList[3]>>

\* C24: in a hash join the build side is consumed completely into the map
\* before the first probe record is read, and when several build records have
\* the same extracted key the one that comes last in the build order is the
\* one the map holds and the join function is given.
C24_BuildCollectedBeforeProbe ==
    exec.op.kind = "HashLookup" =>
        LET op == exec.op
            keyed == {j \in 1..Len(op.build) : apply(op.build_hash, op.build[j]).some}
            key(j) == format(apply(op.build_hash, op.build[j]).v)
            last_of(k) == CHOOSE j \in keyed :
                              key(j) = k /\ \A x \in keyed : key(x) = k => x <= j
        IN  /\ Len(exec.it2) < Len(op.probe) => exec.it1 = <<>>
            /\ exec.pc \in {"probe", "done"} =>
                   /\ exec.it1 = <<>>
                   /\ DOMAIN exec.map = {key(j) : j \in keyed}
                   /\ \A k \in DOMAIN exec.map : exec.map[k] = op.build[last_of(k)]
            /\ \A i \in 1..Len(exec.calls) :
                   exec.calls[i].first.some =>
                       \E j \in keyed :
                           /\ exec.calls[i].first.v = op.build[j]
                           /\ \A x \in keyed : key(x) = key(j) => x <= j

\* the case of C24: two build records have the member c = 1; the probe record
\* with c = 1 was joined with the second of them
C24_Witness ==
    /\ exec.pc = "probe" /\ exec.op.kind = "HashLookup"
    /\ exec.op.build_hash = ExtractPointerC
    /\ exec.op.build = <<QRecList[1], QRecList[3]>>
    /\ Len(exec.calls) = 1
    /\ exec.calls[1].second = Some(QRecList[1])
    /\ exec.calls[1].first = Some(QRecList[3])

\* C25: in a hash join a build record and a probe record are joined exactly
\* when build_hash and probe_hash give the same value for them: the join
\* function is given a build record if and only if some build record has the
\* extracted value of the probe record, and the record it is given has that
\* value; values that differ, as the number 1 and the string "1", never match.
C25_JoinedExactlyOnEqualValues ==
    exec.op.kind = "HashLookup" =>
        LET op == exec.op IN
        \A i \in 1..Len(exec.calls) :
            LET c == exec.calls[i]
                h == apply(op.probe_hash, c.second.v)
            IN  /\ h.some
                /\ c.first.some <=>
                       \E j \in 1..Len(op.build) :
                           apply(op.build_hash, op.build[j]) = h
                /\ c.first.some => apply(op.build_hash, c.first.v) = h

\* the case of C25: the build side has a record with c = 1 and one with
\* c = "1"; the probe record with c = "1" was joined with the second and the
\* probe record with c = 1 with the first
C25_Witness ==
    /\ exec.pc = "done" /\ exec.op.kind = "HashLookup"
    /\ exec.op.build_hash = ExtractPointerC /\ exec.op.probe_hash = ExtractPointerC
    /\ exec.op.build = <<QRecList[1], QRecList[2]>>
    /\ exec.op.probe = <<QRecList[2], QRecList[3]>>
    /\ exec.calls = <<[n |-> 1, first |-> Some(QRecList[2]), second |-> Some(QRecList[2])],
                      [n |-> 2, first |-> Some(QRecList[1]), second |-> Some(QRecList[3])]>>

\* C26: in a merge join over inputs that are both ordered by their keys, the
\* keys of the first being unique, every record r of the second side is
\* presented to the join function exactly once: with (Some(l), Some(r)) when a
\* record l of the first side has its key, with (None, Some(r)) when none has;
\* every record of the first side is presented alone once, when the second
\* side has passed its key or has ended; every call has a record, and two
\* records only when their keys are equal.
C26_MergeJoinsEqualKeys ==
    (exec.op.kind = "Merge" /\ exec.pc \in {"iter", "done"}) =>
        LET op == exec.op
            K1(l) == values_key(multiple(op.first_key, op.first[l]))
            K2(r) == values_key(multiple(op.second_key, op.second[r]))
            calls == exec.calls
        IN  (/\ \A l \in 2..Len(op.first) : LexLess(K1(l - 1), K1(l))
             /\ \A r \in 2..Len(op.second) : LexLeq(K2(r - 1), K2(r))) =>
                /\ \A r \in 1..Len(op.second) :
                       LET cs == {i \in 1..Len(calls) : calls[i].n = r}
                           ls == {l \in 1..Len(op.first) : K1(l) = K2(r)}
                       IN  /\ Cardinality(cs) = 1
                           /\ \A i \in cs :
                                  /\ calls[i].second = Some(op.second[r])
                                  /\ IF ls = {} THEN calls[i].first = NoValue
                                     ELSE \E l \in ls : /\ calls[i].first = Some(op.first[l])
                                                        /\ calls[i].m = l
                /\ \A l \in 1..Len(op.first) :
                       Cardinality({i \in 1..Len(calls) :
                                       calls[i].m = l /\ ~calls[i].second.some}) = 1
                /\ \A i \in 1..Len(calls) :
                       /\ calls[i].first.some \/ calls[i].second.some
                       /\ calls[i].first.some => calls[i].first.v = op.first[calls[i].m]
                       /\ (calls[i].first.some /\ calls[i].second.some) =>
                              K1(calls[i].m) = K2(calls[i].n)
                       /\ i > 1 => /\ calls[i - 1].m <= calls[i].m \/ calls[i].m = 0
                                   /\ calls[i - 1].n <= calls[i].n \/ calls[i].n = 0

\* the case of C26: the first side has the keys 1 and 2, the second side two
\* records of key 1; both were joined with the first record of the first
\* side, then the records of the first side were presented alone
C26_Witness ==
    /\ exec.pc = "done" /\ exec.op.kind = "Merge"
    /\ exec.op.first_key = <<ExtractKey>>
    /\ exec.op.first = <<QRecList[1], QRecList[2]>>
    /\ exec.op.second = <<QRecList[1], QRecList[1]>>
    /\ exec.calls =
          <<[m |-> 1, n |-> 1, first |-> Some(QRecList[1]), second |-> Some(QRecList[1])],
            [m |-> 1, n |-> 2, first |-> Some(QRecList[1]), second |-> Some(QRecList[1])],
            [m |-> 1, n |-> 0, first |-> Some(QRecList[1]), second |-> NoValue],
            [m |-> 2, n |-> 0, first |-> Some(QRecList[2]), second |-> NoValue]>>

\* C27: a merge join is streaming on both sides: while it runs it holds
\* nothing but the current head of each input; the records the join function
\* returned are with the consumer, none is kept until the inputs end.
C27_MergeHoldsOnlyHeads ==
    (exec.op.kind = "Merge" /\ exec.pc = "merge") => exec.v = <<>>

\* the case of C27: the loop of a merge is still running, a head is still to
\* be joined, two records are held in v and the consumer has none
C27_OutputHeldInVec ==
    /\ exec.op.kind = "Merge" /\ exec.pc = "merge"
    /\ exec.orec1.some \/ exec.orec2.some
    /\ Len(exec.v) = 2
    /\ exec.out = <<>>

C29_ScriptFailureSurfaces ==
    LET op == exec.op
        failed(e, rec) == e.kind = "Function" /\ ~eval_ast_with_scope(e.s, rec).ok
    IN  /\ (op.kind = "Reduce" /\ ~EvalReduceScript(op.process, op.operation).ok) =>
               exec.err # "none" /\ exec.pc = "done" /\ exec.out = <<>>
        /\ op.kind = "HashLookup" =>
               /\ \A j \in 1..(Len(op.build) - Len(exec.it1)) :
                      failed(op.build_hash, op.build[j]) =>
                          exec.err # "none" /\ exec.pc = "done"
               /\ \A j \in 1..(Len(op.probe) - Len(exec.it2)) :
                      failed(op.probe_hash, op.probe[j]) =>
                          exec.err # "none" /\ exec.pc = "done"

\* the case of C29: a hash join keyed by the script rec.value.c has run to its
\* end without an error; the script failed on its first probe record, whose
\* value is a number, and the second probe record was joined after it
C29_FailedRecordDropped ==
    /\ exec.pc = "done" /\ exec.op.kind = "HashLookup"
    /\ exec.op.probe_hash = ExtractScriptC
    /\ exec.op.build = <<QRecList[1]>>
    /\ exec.op.probe = <<QRecList[4], QRecList[1]>>
    /\ ~eval_ast_with_scope(ScriptC, QRecList[4]).ok
    /\ exec.err = "none"
    /\ exec.calls = <<[n |-> 2, first |-> Some(QRecList[1]), second |-> Some(QRecList[1])]>>
    /\ exec.out = <<QRecList[1]>>

\* C30: the textual extract forms map one to one onto the record-extract
\* variants: the text key parses to Key, value to Value, pointer(s) to
\* Pointer(s), script(s) to Script(s) and [e1,..,en] to Multiple of the
\* parsed elements, the whole text being consumed.
C30_ExtractTextParsesToItsVariant ==
    exec.op.kind = "Parse" =>
        /\ exec.op.result.ok
        /\ exec.op.result.e = exec.op.extract
        /\ exec.op.result.pos = Len(exec.op.input) + 1

\* the case of C30: the text script("rec.value.c") was parsed, and the result
\* is Pointer("rec.value.c")
C30_ScriptParsedAsPointer ==
    /\ exec.op.kind = "Parse"
    /\ exec.op.extract = [kind |-> "Script", s |-> ScriptC]
    /\ exec.op.input = <<115, 99, 114, 105, 112, 116, 40, 34>> \o ScriptC \o <<34, 41>>
    /\ exec.op.result.ok
    /\ exec.op.result.e = [kind |-> "Pointer", s |-> ScriptC]

\* C31: every kind of Value can be written as a literal where the grammar
\* expects a value: the text of an operation whose key (key_lookup), value
\* (augment) or values (index_lookup) are null, booleans, numbers, strings,
\* arrays or objects parses, and each literal parses to the Value it denotes.
C31_ValueLiteralsParseToTheirValue ==
    exec.op.kind = "Script" =>
        /\ exec.err = "none"
        /\ exec.op.operation.kind = "KeyLookup" => exec.op.parsed.key = exec.op.operation.key
        /\ exec.op.operation.kind = "Augment" =>
               exec.op.parsed.value = exec.op.operation.value
        /\ exec.op.operation.kind = "IndexLookup" =>
               exec.op.parsed.values = exec.op.operation.values

\* the case of C31: the text key_lookup("t",null) was executed and did not
\* parse
C31_NullLiteralRejected ==
    /\ exec.op.kind = "Script"
    /\ exec.op.operation = [kind |-> "KeyLookup", name |-> <<116>>, key |-> Null]
    /\ exec.op.script = <<107, 101, 121, 95, 108, 111, 111, 107, 117, 112, 40,
                          34, 116, 34, 44, 110, 117, 108, 108, 41>>
    /\ exec.err = "ParseError"

\* C32: the textual and the programmatic surface build the same operator
\* tree: the text of an operation without callbacks parses and converts to
\* the operation the constructors build from the same literals, and both
\* return the same record stream on the same database.
C32_TextBuildsTheSameOperation ==
    exec.op.kind = "Script" =>
        /\ exec.err = "none"
        /\ into_rust(exec.op.parsed) = exec.op.operation
        /\ exec.out = exec.op.built

\* the case of C32: a record is stored under the integer key 2; key_lookup
\* built with the key 2 returns it, the text key_lookup("t",2) parses to a
\* lookup of the key 2.0 and returns nothing
C32_IntegerKeyNotFoundByText ==
    /\ exec.op.kind = "Script"
    /\ exec.op.operation = [kind |-> "KeyLookup", name |-> <<116>>, key |-> Num(2)]
    /\ exec.op.script = <<107, 101, 121, 95, 108, 111, 111, 107, 117, 112, 40,
                          34, 116, 34, 44, 50, 41>>
    /\ exec.err = "none"
    /\ exec.op.parsed = [kind |-> "KeyLookup", name |-> <<116>>, key |-> Float(2)]
    /\ Len(exec.op.built) = 1
    /\ exec.op.built[1].key = Num(2)
    /\ exec.out = <<>>

\* C33: nested_loops(first, second) emits, for each record r of first in the
\* order of first, all records of the operation second(r) in their own order
\* before any record derived from the next record of first: what was emitted
\* and what is left of the inner stream at hand is the concatenation of the
\* inner streams of the records of first taken so far, these are a prefix of
\* first, and at the end all of first was taken and nothing is left.
C33_NestedLoopsConcatenateInnerStreams ==
    exec.op.kind = "NestedLoops" =>
        /\ exec.calls \o exec.it1 = exec.op.first
        /\ exec.out \o exec.it2 =
               Concat([j \in 1..Len(exec.calls) |-> second(exec.op.second, exec.calls[j])])
        /\ exec.pc = "done" => exec.it1 = <<>> /\ exec.it2 = <<>>

\* the case of C33: first has two records, the inner stream of the first one
\* is empty and that of the second one is not, and the loops are exhausted
C33_Witness ==
    /\ exec.op.kind = "NestedLoops"
    /\ exec.pc = "done"
    /\ exec.op.second = "mappings"
    /\ Len(exec.op.first) = 2
    /\ exec.op.first[1].value.tag # "obj"
    /\ exec.op.first[2].value.tag = "obj"
    /\ exec.out = <<exec.op.first[2]>>

\* C34: the set of record types in the catalog never shrinks: no insert,
\* delete, add_index, delete_index or re-open removes a type from the catalog
\* the handle holds or from the catalog a re-open would load, even when the
\* type has no record and no index left.
C34_CatalogTypesNeverShrink ==
    [][/\ DOMAIN metadata \subseteq DOMAIN metadata'
       /\ DOMAIN open(DB).db.metadata \subseteq DOMAIN open(DB').db.metadata]_vars

\* the case of C34: delete_index dropped the last index of a type that has a
\* namespace and no record left; the catalog still lists the type
C34_Witness ==
    /\ last.op = "delete_index" /\ last.ok
    /\ last.rec_type \in DOMAIN cfs
    /\ Records(last.rec_type) = {}
    /\ last.rec_type \in DOMAIN metadata
    /\ metadata[last.rec_type] = Empty
    /\ last.rec_type \in DOMAIN open(DB).db.metadata

C36_EmptyRecordDropsRow ==
    (/\ exec.op.kind \in {"HashLookup", "Merge"}
     /\ exec.op.join \in {"build", "probe", "rec1", "rec2", "empty_record()"}) =>
        LET e == EQLRecord(Null, Null)
            returned(c) ==
                CASE exec.op.join \in {"build", "rec1"} ->
                        IF c.first.some THEN c.first.v ELSE e
                  [] exec.op.join \in {"probe", "rec2"} ->
                        IF c.second.some THEN c.second.v ELSE e
                  [] OTHER -> e
            all == [i \in 1..Len(exec.calls) |-> returned(exec.calls[i])]
            NotEmpty(rec) == rec # e
        IN  exec.out \o exec.v = SelectSeq(all, NotEmpty)

\* the case of C36: a merge whose script returns rec2 has ended; of its three
\* calls the one without a second record returned the empty record and gave
\* no output, the two others gave their second record
C36_Witness ==
    /\ exec.op.kind = "Merge" /\ exec.pc = "done"
    /\ exec.op.join = "rec2"
    /\ Len(exec.calls) = 3
    /\ \E i \in 1..3 : ~exec.calls[i].second.some
    /\ Len(exec.out) = 2
    /\ \A j \in 1..2 : \E i \in 1..3 : exec.calls[i].second = Some(exec.out[j])

\* C37: the loop of the merge join ends for all finite inputs, ordered or
\* not: every iteration calls the join function exactly once and advances
\* exactly one of the two inputs by one record, the second one exactly when
\* the call has its record; when the loop ends the join function was called
\* |first| + |second| times and every record of the second side was passed to
\* it exactly once.
C37_MergeLoopAdvancesOneSidePerCall ==
    [][(exec.op.kind = "Merge" /\ exec.pc = "merge") =>
          LET left(e) == Len(e.it1) + (IF e.orec1.some THEN 1 ELSE 0)
              right(e) == Len(e.it2) + (IF e.orec2.some THEN 1 ELSE 0)
              calls == exec.calls
          IN  IF exec.orec1.some \/ exec.orec2.some
              THEN /\ exec'.pc = "merge"
                   /\ Len(exec'.calls) = Len(calls) + 1
                   /\ SubSeq(exec'.calls, 1, Len(calls)) = calls
                   /\ LET c == exec'.calls[Len(calls) + 1]
                      IN  IF c.second.some
                          THEN /\ c.second = exec.orec2
                               /\ right(exec') = right(exec) - 1
                               /\ left(exec') = left(exec)
                          ELSE /\ c.first = exec.orec1 /\ c.first.some
                               /\ left(exec') = left(exec) - 1
                               /\ right(exec') = right(exec)
                   /\ Len(exec'.calls) + left(exec') + right(exec') =
                          Len(exec.op.first) + Len(exec.op.second)
              ELSE /\ exec'.pc = "iter"
                   /\ Len(calls) = Len(exec.op.first) + Len(exec.op.second)
                   /\ \A r \in 1..Len(exec.op.second) :
                          \E i \in 1..Len(calls) :
                              /\ calls[i].n = r
                              /\ calls[i].second = Some(exec.op.second[r])
                              /\ \A j \in 1..Len(calls) : calls[j].n = r => j = i]_vars

\* the case of C37: both inputs have two records and neither is ordered by
\* its keys; the loop has ended after four calls
C37_Witness ==
    /\ exec.op.kind = "Merge" /\ exec.pc = "iter"
    /\ exec.op.first_key = <<ExtractKey>>
    /\ exec.op.first = <<QRecList[3], QRecList[1]>>
    /\ exec.op.second = <<QRecList[4], QRecList[2]>>
    /\ Len(exec.calls) = 4

\* C38: in a merge join every record of the first side is passed to the join
\* function exactly once alone, as (Some(l), None), whether or not it was
\* passed with matching records of the second side before: the calls with a
\* record of the first side are one per match and one alone.
C38_EveryFirstRecordPassedAloneOnce ==
    (exec.op.kind = "Merge" /\ exec.pc \in {"iter", "done"}) =>
        \A l \in 1..Len(exec.op.first) :
            LET of == {i \in 1..Len(exec.calls) : exec.calls[i].m = l}
                alone == {i \in of : ~exec.calls[i].second.some}
            IN  /\ \A i \in of : exec.calls[i].first = Some(exec.op.first[l])
                /\ Cardinality(alone) = 1
                /\ \A i \in of : \A j \in alone : i <= j

\* the case of C38: the only record of the first side was passed with each of
\* the two records of the second side and then alone
C38_Witness ==
    /\ exec.op.kind = "Merge" /\ exec.pc = "done"
    /\ Len(exec.op.first) = 1 /\ Len(exec.op.second) = 2
    /\ Len(exec.calls) = 3
    /\ exec.calls[1].first = Some(exec.op.first[1]) /\ exec.calls[1].second.some
    /\ exec.calls[2].first = Some(exec.op.first[1]) /\ exec.calls[2].second.some
    /\ exec.calls[3].first = Some(exec.op.first[1]) /\ ~exec.calls[3].second.some

\* C39: distinct namespaces never collide: two different (record type, index
\* name) pairs get different index namespace names, and no index namespace
\* name is the namespace name of a record type the store accepts.
C39_NamespacesNeverCollide ==
    exec.op.kind = "Namespaces" =>
        /\ exec.op.first # exec.op.second => exec.op.first_cf # exec.op.second_cf
        /\ exec.op.first_cf \notin exec.op.type_cfs
        /\ exec.op.second_cf \notin exec.op.type_cfs

\* the case of C39: the index "a_a" of type "a" and the index "a" of type
\* "a_a" are both given the namespace "#idx_a_a_a"
C39_TwoIndexesOneNamespace ==
    /\ exec.op.kind = "Namespaces"
    /\ exec.op.first = <<<<97>>, <<97, 95, 97>>>>
    /\ exec.op.second = <<<<97, 95, 97>>, <<97>>>>
    /\ exec.op.first_cf = <<35, 105, 100, 120, 95, 97, 95, 97, 95, 97>>
    /\ exec.op.second_cf = exec.op.first_cf

\* C40: batch_insert has effects outside the batch that take place at the
\* call and do not wait for write: for a type the catalog does not know, the
\* call leaves the type with its namespace, in the catalog, and the catalog
\* saved, and the records that can be read are those of before; dropping the
\* batch takes nothing of this back; batch_delete changes nothing but the
\* batch.
C40_BatchInsertRegistersAtTheCall ==
    [][/\ \A t \in Types, k \in Keys, v \in RecValues :
              (BatchInsert(t, k, v) /\ t \notin DOMAIN metadata) =>
                  /\ t \in DOMAIN cfs'
                  /\ t \in DOMAIN metadata' /\ metadata'[t] = Empty
                  /\ metafile'.exists
                  /\ ValueToMetadata(from_slice(metafile'.bytes)) = metadata'
                  /\ \A k2 \in Keys : get(DB', t, k2) = get(DB, t, k2)
       /\ DropBatch => UNCHANGED <<cfs, metadata, metafile>>
       /\ (\E t \in Types, k \in Keys : BatchDelete(t, k)) =>
              UNCHANGED <<cfs, metadata, metafile>>]_vars

\* the case of C40: the first record of a type was put in a batch and the
\* batch was dropped; the type is in the catalog and in the saved catalog, has
\* its namespace and no record
C40_Witness ==
    /\ last.op = "drop_batch" /\ prev = NoCall /\ batch = EmptyBatch
    /\ \E t \in Types :
           /\ t \in DOMAIN metadata /\ metadata[t] = Empty
           /\ t \in DOMAIN cfs /\ cfs[t] = Empty
           /\ metafile = save_metadata(metadata)
           /\ \A k \in Keys : stored[t][k] = NoValue /\ get(DB, t, k) = NoValue

====
